---- MODULE Spec2Model ----
(***************************************************************************)
(* Load generator + metrics collector of the PostgreSQL load-test servers. *)
(*                                                                         *)
(* The write-server generator (load/generator.go), its Config and its      *)
(* metrics.Collector (load/config.go) and the LoadHandler HTTP adapter     *)
(* are modelled as a shared-memory program: goroutines are processes, a    *)
(* step is one access to a shared location (an atomic Load/Store, a plain  *)
(* field write, a channel or WaitGroup operation).                         *)
(*                                                                         *)
(* Spec          the generator life cycle; a collector method is one step  *)
(*               (the effect of its critical section).                     *)
(* FairSpec      Spec with the scheduler's fairness, for liveness.         *)
(* CollectorSpec the collector alone, one step per statement, with its     *)
(*               sync.RWMutex: what makes a collector method one step.     *)
(***************************************************************************)
EXTENDS Integers, Sequences, FiniteSets, Bags, TLC

(***************************************************************************)
(* Bounds of the model.                                                    *)
(***************************************************************************)
\* config.Workers ranges over 1..MaxWorkers.
MaxWorkers == 3
\* Start requests the clients issue (each would make one stop channel).
MaxStarts == 2
\* Outcomes are counted while total_requests is below this; the workers
\* go on past it, the counters of the model do not.
MaxTotal == 1
\* Concurrent HTTP requests / API callers controlling the generator.
NumCallers == 2
\* Goroutines calling the collector in CollectorSpec.
NumThreads == 2
\* Record calls begin in CollectorSpec while total_requests is below this.
MaxRecorded == 3

Callers == 1..NumCallers
Threads == 1..NumThreads

VARIABLES
    running,    \* Generator.running (atomic.Bool)
    stopCh,     \* Generator.stopCh: identity of the channel the field holds
    closed,     \* identities of the channels that have been closed
    nextRun,    \* identity of the channel the next Start request would make
    wg,         \* Generator.wg counter
    config,     \* *Generator.config
    col,        \* metrics.Collector fields
    workers,    \* bag of live worker goroutines
    timers,     \* bag of live duration-timer goroutines
    call,       \* per caller: the control call it executes
    crashed,    \* the process died of a panic outside an HTTP handler
    env,        \* what the clients of the server do (fixed by Init)
    mu,         \* Collector.mu (CollectorSpec)
    thr,        \* per thread: the collector call it executes (CollectorSpec)
    rs,         \* read-server Generator: running, config (ReadSpec)
    req,        \* the last Validate / UpdateConfig request (ReadSpec)
    ms,         \* the last collector call and its result (MetricsSpec)
    wk,         \* one worker and its database transaction (WorkSpec)
    shop        \* the products row and the deductions on it (StockSpec)

vars == <<running, stopCh, closed, nextRun, wg, config, col, workers,
          timers, call, crashed, env, mu, thr, rs, req, ms, wk, shop>>

\* What the collector's methods do not touch.
lifecycle == <<running, stopCh, closed, nextRun, wg, config, workers,
               timers, call, crashed, env, rs, req, ms, wk, shop>>

(***************************************************************************)
(* Go's int and int64 are 64 bits wide; the model keeps two's-complement   *)
(* wrap-around at IntBits bits, so MaxInt stands for 1<<63 - 1.            *)
(***************************************************************************)
IntBits == 8
MaxInt == 2^(IntBits - 1) - 1
MinInt == -(2^(IntBits - 1))
Wrap(x) == ((x - MinInt) % 2^IntBits) + MinInt

(***************************************************************************)
(* load.Config                                                             *)
(***************************************************************************)
IsolationLevels == {"READ COMMITTED", "REPEATABLE READ", "SERIALIZABLE"}

ValidateKeepingWorkers(c) ==
    [TPS            |-> IF c.TPS < 0 THEN 0 ELSE c.TPS,
     BatchSize      |-> IF c.BatchSize < 1 THEN 1 ELSE c.BatchSize,
     Workers        |-> c.Workers,
     Duration       |-> IF c.Duration < 0 THEN 0 ELSE c.Duration,
     IsolationLevel |-> IF c.IsolationLevel \in IsolationLevels
                        THEN c.IsolationLevel ELSE "READ COMMITTED"]

\* Config.Validate (write-server): repairs scalars in place, never fails.
Validate(c) ==
    [TPS            |-> IF c.TPS < 0 THEN 0 ELSE c.TPS,
     BatchSize      |-> IF c.BatchSize < 1 THEN 1 ELSE c.BatchSize,
     Workers        |-> IF c.Workers < 1 THEN 1 ELSE c.Workers,
     Duration       |-> IF c.Duration < 0 THEN 0 ELSE c.Duration,
     IsolationLevel |-> IF c.IsolationLevel \in IsolationLevels
                        THEN c.IsolationLevel ELSE "READ COMMITTED"]

\* Configs a generator is constructed with or reconfigured to.
ConfigInputs(maxWorkers, durations) ==
    [TPS : {0, 1}, BatchSize : {1}, Workers : 0..maxWorkers,
     Duration : durations, IsolationLevel : {"READ COMMITTED"}]

(***************************************************************************)
(* The clients of the server: how many requests are in flight at once, how *)
(* many Start requests they issue, the configs their request bodies carry, *)
(* and up to how many Resets of the collector they still ask for one; and  *)
(* the database: "flaky" (an operation succeeds or fails) or "down" (every *)
(* operation fails).  Each behaviour has one of these workloads.           *)
(***************************************************************************)
\* ResetMetrics requests are issued while the collector has seen fewer
\* Resets than this.
MaxResetRequests == 2

Env(callers, starts, maxWorkers, durations) ==
    [callers |-> callers, starts |-> starts,
     configs |-> ConfigInputs(maxWorkers, durations),
     resets |-> 0, target |-> "flaky"]

\* Concurrent clients, one run, timed or not.
RacingEnv == Env(NumCallers, MaxStarts - 1, MaxWorkers - 1, {0, 1})
\* Concurrent clients reconfiguring around one untimed run.
ReconfigureEnv == Env(NumCallers, MaxStarts - 1, MaxWorkers, {0})
\* One client at a time restarting timed runs.
SequentialEnv == Env(NumCallers - 1, MaxStarts, MaxWorkers - 2, {0, 1})
\* One client at a time restarting untimed runs: every Start follows a
\* completed Stop.
UntimedEnv == Env(1, MaxStarts, MaxWorkers - 2, {0})
\* Concurrent clients restarting untimed runs.
RestartEnv == Env(NumCallers, MaxStarts, MaxWorkers - 2, {0})
\* Concurrent clients resetting the metrics around one untimed run.
ResetEnv ==
    [Env(NumCallers, MaxStarts - 1, MaxWorkers - 2, {0})
        EXCEPT !.resets = MaxResetRequests]
\* Concurrent clients, one run, timed or not, against a database that is
\* down.
DownEnv ==
    [Env(NumCallers, MaxStarts - 1, MaxWorkers - 2, {0, 1})
        EXCEPT !.target = "down"]

Envs == {RacingEnv, ReconfigureEnv, SequentialEnv, UntimedEnv, RestartEnv,
         ResetEnv, DownEnv}

(***************************************************************************)
(* metrics.Collector, each method as the effect of its critical section.   *)
(***************************************************************************)
NewCollector ==
    [totalRequests |-> 0, successRequests |-> 0, failedRequests |-> 0,
     latencies |-> <<>>, startTime |-> 0, maxLatencies |-> 100000]

RecordSuccessUncapped(c, latency, count) ==
    [c EXCEPT !.totalRequests = Wrap(@ + count),
              !.successRequests = Wrap(@ + count),
              !.latencies = Append(@, latency)]

RecordSuccessAssigning(c, latency, count) ==
    [c EXCEPT !.totalRequests = count,
              !.successRequests = count,
              !.latencies = IF Len(@) < c.maxLatencies
                            THEN Append(@, latency) ELSE @]

RecordSuccess(c, latency, count) ==
    [c EXCEPT !.totalRequests = Wrap(@ + count),
              !.successRequests = Wrap(@ + count),
              !.latencies = IF Len(@) < c.maxLatencies
                            THEN Append(@, latency) ELSE @]

RecordFailureAsSuccess(c, count) ==
    [c EXCEPT !.totalRequests = Wrap(@ + count),
              !.successRequests = Wrap(@ + count)]

RecordFailure(c, count) ==
    [c EXCEPT !.totalRequests = Wrap(@ + count),
              !.failedRequests = Wrap(@ + count)]

ResetCounters(c) ==
    [c EXCEPT !.totalRequests = 0, !.successRequests = 0,
              !.failedRequests = 0, !.startTime = @ + 1]

\* time.Now() is the number of Resets so far: a clock that ticks per Reset.
Reset(c) ==
    [c EXCEPT !.totalRequests = 0, !.successRequests = 0,
              !.failedRequests = 0, !.latencies = <<>>,
              !.startTime = @ + 1]

(***************************************************************************)
(* Goroutines of the generator.                                            *)
(*                                                                         *)
(* A worker is [pc, run, tick, ch]: run is the Start call that spawned it, *)
(* tick whether it created a ticker, ch the channel its inner select       *)
(* receives from (-1 outside that select).  pc: "new" (spawned, has not    *)
(* read the config), "loop" (at the outer select), "wait" (in the inner    *)
(* select), "op" (insertBatch in flight), "exit" (returned from the loop,  *)
(* deferred wg.Done pending).                                              *)
(* A timer is [pc, run]: "sleep" in time.Sleep, then inside g.Stop().      *)
(***************************************************************************)
Worker(pc, run, tick) == [pc |-> pc, run |-> run, tick |-> tick, ch |-> -1]
Timer(pc, run) == [pc |-> pc, run |-> run]

Add(bag, e) == bag (+) SetToBag({e})
Remove(bag, e) == bag (-) SetToBag({e})
Move(bag, from, to) == Add(Remove(bag, from), to)

\* A caller is idle or inside a call: [op, pc, res, i, run, n], i and run
\* the locals of Start (its loop counter and the channel it makes).  At pc
\* "ret" the call hands res to its caller.  n is history: config.Workers
\* as Start found it when it passed the check.
At(op, pc, i, run) ==
    [op |-> op, pc |-> pc, res |-> "", i |-> i, run |-> run, n |-> 0]
Ret(op, res) ==
    [op |-> op, pc |-> "ret", res |-> res, i |-> 0, run |-> 0, n |-> 0]
IdleCall == At("none", "idle", 0, 0)
Idle(c) == c <= env.callers /\ call[c] = IdleCall

\* Latencies time.Since(start) yields.
OpLatencies == {1}

\* A thread of CollectorSpec: the method it is in, its arguments, the
\* fields GetMetrics has read, and the last snapshot GetMetrics returned.
Snapshot(total, success, failed) ==
    [total |-> total, success |-> success, failed |-> failed]

IdleThread(ret) ==
    [op |-> "none", pc |-> "idle", count |-> 0, latency |-> 0,
     read |-> Snapshot(0, 0, 0), ret |-> ret]

RWMutexFree == [w |-> 0, r |-> {}]

(***************************************************************************)
(* read-server load.Config and Generator.UpdateConfig.                     *)
(***************************************************************************)
QueryMix(simple, filter, aggregate) ==
    [Simple |-> simple, Filter |-> filter, Aggregate |-> aggregate]

ReadDefaultConfig ==
    [QPS |-> 1000, Workers |-> 10, Duration |-> 0,
     QueryMix |-> QueryMix(60, 30, 10), IsolationLevel |-> "READ COMMITTED"]

\* Config.Validate (read-server): repairs QPS, Workers and Duration in
\* place, then rejects the query mix or repairs the isolation level.
ReadValidate(c) ==
    LET c1 == [c EXCEPT !.QPS = IF @ < 0 THEN 0 ELSE @,
                        !.Workers = IF @ < 1 THEN 1 ELSE @,
                        !.Duration = IF @ < 0 THEN 0 ELSE @]
        total == Wrap(Wrap(c.QueryMix.Simple + c.QueryMix.Filter)
                      + c.QueryMix.Aggregate)
    IN  IF total # 100
        THEN [config |-> c1, err |-> "sum"]
        ELSE IF \/ c.QueryMix.Simple < 0
                \/ c.QueryMix.Filter < 0
                \/ c.QueryMix.Aggregate < 0
        THEN [config |-> c1, err |-> "negative"]
        ELSE [config |-> [c1 EXCEPT !.IsolationLevel =
                             IF @ \in IsolationLevels
                             THEN @ ELSE "READ COMMITTED"],
              err |-> "nil"]

\* Request bodies: every scalar below, at and above its limit with two
\* mixes, and every mix of Weights with scalars in range.
Weights == {-10, 0, 40, 50, 60, 102, 110, MaxInt}
Levels == {"READ COMMITTED", "SERIALIZABLE", "read committed", ""}

ReadConfigInputs ==
    [QPS : {-1, 0, 1}, Workers : {0, 1, 2}, Duration : {-1, 0, 1},
     QueryMix : {QueryMix(60, 40, 0), QueryMix(60, 50, 0)},
     IsolationLevel : Levels]
    \cup
    [QPS : {1}, Workers : {2}, Duration : {0},
     QueryMix : [Simple : Weights, Filter : Weights, Aggregate : Weights],
     IsolationLevel : {"SERIALIZABLE"}]

WriteConfigInputs ==
    [TPS : {-1, 0, 1}, BatchSize : {0, 1, 2}, Workers : {0, 1, 2},
     Duration : {-1, 0, 1}, IsolationLevel : Levels]

\* Validate / UpdateConfig requests served in one behaviour of ReadSpec.
MaxRequests == 2

NewReadGenerator == [running |-> FALSE, config |-> ReadDefaultConfig]

\* op, the config as the caller passed it (given), the caller's config
\* object after the call (arg), the error returned, requests so far.
Request(op, given, arg, err) ==
    [op |-> op, given |-> given, arg |-> arg, err |-> err, n |-> req.n + 1]

NoRequest ==
    [op |-> "none", given |-> ReadDefaultConfig, arg |-> ReadDefaultConfig,
     err |-> "nil", n |-> 0]

(***************************************************************************)
(* Collector.GetMetrics: the figures of a snapshot.  QPS/TPS and Elapsed   *)
(* depend on the wall clock only and are left out.                         *)
(***************************************************************************)
\* time.Millisecond in nanoseconds, the unit of time.Duration.
Millisecond == 1000000

\* Duration.Milliseconds(): integer division, the fraction is dropped.
Milliseconds(d) == d \div Millisecond

RECURSIVE Sum(_)
Sum(s) == IF s = <<>> THEN 0 ELSE Head(s) + Sum(Tail(s))

RECURSIVE Insert(_, _)
Insert(x, s) ==
    IF s = <<>> THEN <<x>>
    ELSE IF x <= Head(s) THEN <<x>> \o s
    ELSE <<Head(s)>> \o Insert(x, Tail(s))

Unsorted(s) == s

\* copy(sortedLatencies, c.latencies); sort.Slice(.., less): ascending.
RECURSIVE SortAsc(_)
SortAsc(s) == IF s = <<>> THEN <<>> ELSE Insert(Head(s), SortAsc(Tail(s)))

IndexRoundedUp(len, p) == (len * p + 99) \div 100

\* len(sortedLatencies)*p/100, a 0-based index.
Index(len, p) == (len * p) \div 100

\* sortedLatencies[index]: an index out of range panics.
InRange(s, p) == Index(Len(s), p) \in 0..(Len(s) - 1)
Percentile(s, p) ==
    IF InRange(s, p) THEN Milliseconds(s[Index(Len(s), p) + 1]) ELSE 0

\* float64(sum.Milliseconds()) / float64(len): a fraction num/den.
Fraction(num, den) == [num |-> num, den |-> den]

GetMetrics(c) ==
    LET sorted == SortAsc(c.latencies)
        some == Len(c.latencies) > 0
    IN  [total |-> c.totalRequests,
         success |-> c.successRequests,
         failed |-> c.failedRequests,
         avg |-> IF some
                 THEN Fraction(Milliseconds(Sum(c.latencies)),
                               Len(c.latencies))
                 ELSE Fraction(0, 1),
         p50 |-> IF some THEN Percentile(sorted, 50) ELSE 0,
         p95 |-> IF some THEN Percentile(sorted, 95) ELSE 0,
         p99 |-> IF some THEN Percentile(sorted, 99) ELSE 0,
         panic |-> some /\ \E p \in {50, 95, 99} : ~InRange(sorted, p),
         startTime |-> c.startTime]

GetMetricsSortingInPlace(c) == [c EXCEPT !.latencies = SortAsc(@)]

\* The collector as GetMetrics leaves it: it holds the read lock, copies
\* c.latencies into sortedLatencies and sorts the copy.
GetMetricsLeaves(c) == c

\* Latencies time.Since(start) yields in MetricsSpec: 0.5, 1.5 and 2.5 ms.
SampleLatencies ==
    {Millisecond \div 2, Millisecond + Millisecond \div 2,
     2 * Millisecond + Millisecond \div 2}

\* A collector whose constructor set a small cap instead of 100000.
SmallCap == 2
SmallCollector == [NewCollector EXCEPT !.maxLatencies = SmallCap]

\* Sample buffers after a + b + c successes of 2.5, 1.5 and 0.5 ms.
MaxBuffer == 25
Staircase(a, b, c) ==
    [i \in 1..(a + b + c) |->
        IF i <= a THEN 2 * Millisecond + Millisecond \div 2
        ELSE IF i <= a + b THEN Millisecond + Millisecond \div 2
        ELSE Millisecond \div 2]

Buffers ==
    {Staircase(a, b, c) : <<a, b, c>> \in
        {t \in (0..MaxBuffer) \X (0..MaxBuffer) \X (0..MaxBuffer) :
            t[1] + t[2] + t[3] \in 1..MaxBuffer}}

\* Collectors that recorded Len(b) single successes since construction.
FilledCollectors ==
    {[NewCollector EXCEPT !.latencies = b, !.totalRequests = Len(b),
                          !.successRequests = Len(b)] : b \in Buffers}

\* Collector calls made in one behaviour of MetricsSpec: on the collector
\* with the small cap, and on one that starts with a filled buffer.
MaxCalls == 4
FilledCalls == 2

\* The last collector call: its name and arguments, the snapshot it
\* returned, the names of the calls so far, the calls still to come; the
\* name and arguments of the call before it and the collector as that call
\* found it.
NoMetrics == GetMetrics(NewCollector)
Args(op, count, latency) == [op |-> op, count |-> count, latency |-> latency]
NoCall ==
    [op |-> "none", count |-> 0, latency |-> 0, ret |-> NoMetrics,
     log |-> <<>>, left |-> 0,
     prev |-> Args("none", 0, 0), found |-> NewCollector,
     before |-> NewCollector]
Called(op, count, latency, ret) ==
    [op |-> op, count |-> count, latency |-> latency, ret |-> ret,
     log |-> Append(ms.log, op), left |-> ms.left - 1,
     prev |-> Args(ms.op, ms.count, ms.latency), found |-> col,
     before |-> ms.found]

(***************************************************************************)
(* One worker of a generator and the operation it runs against the         *)
(* database: the rate limiter, the choice of the query, the transaction,   *)
(* the outcome it records.  wk is [server, pc, interval, iter, r, kind,    *)
(* tx, rows, err, steps, outcomes]: the server the worker belongs to, its  *)
(* position, its ticker interval (0 without a ticker), the iterations it   *)
(* has finished and, of the iteration in progress, the draw and the query  *)
(* type chosen, the state of the transaction ("none", "open", "committed", *)
(* "aborted" by a failed Commit, "rolledback"), whether a result set is    *)
(* open, the error executeQuery/insertBatch returns, the database calls    *)
(* made and the outcomes recorded.                                         *)
(***************************************************************************)
\* time.Second in nanoseconds.
Second == 1000000000

\* Iterations of its loop the worker runs.
MaxIterations == 2

\* rand.Intn(100)
Draws == 0..99

\* tpsPerWorker := g.config.TPS / g.config.Workers; if < 1 { = 1 }
PerWorker(rate, nworkers) ==
    IF rate \div nworkers < 1 THEN 1 ELSE rate \div nworkers

\* interval := time.Second / time.Duration(tpsPerWorker)
Interval(rate, nworkers) == Second \div PerWorker(rate, nworkers)

selectQueryTypeInclusive(mix, r) ==
    IF r <= mix.Simple THEN "simple"
    ELSE IF r <= Wrap(mix.Simple + mix.Filter) THEN "filter"
    ELSE "aggregate"

\* Generator.selectQueryType for the draw r.
selectQueryType(mix, r) ==
    IF r < mix.Simple THEN "simple"
    ELSE IF r < Wrap(mix.Simple + mix.Filter) THEN "filter"
    ELSE "aggregate"

\* Rate limits and pool sizes of the configs a worker runs under, and the
\* query mixes: every valid mix with weights from MixWeights.  The rate
\* limiter only divides: rates and nanoseconds are taken at full width,
\* among them a rate above half of and one above 10^9 operations a second.
Rates == {0, 1, 2, 3, 5, 8, 600000000, 2000000000}
PoolSizes == {1, 2, 4}
MixWeights == {0, 1, 30, 40, 60, 99, 100}
ValidMixes ==
    {m \in [Simple : MixWeights, Filter : MixWeights, Aggregate : MixWeights] :
        m.Simple + m.Filter + m.Aggregate = 100}

WorkWriteConfigs ==
    [TPS : Rates, BatchSize : {1, 2}, Workers : PoolSizes, Duration : {0},
     IsolationLevel : {"READ COMMITTED"}]

WorkReadConfigs ==
    [QPS : {0, 1}, Workers : {1, 2}, Duration : {0}, QueryMix : ValidMixes,
     IsolationLevel : {"READ COMMITTED"}]

NoWork ==
    [server |-> "none", pc |-> "none", ticker |-> FALSE, interval |-> 0,
     iter |-> 0,
     r |-> -1, kind |-> "", tx |-> "none", rows |-> FALSE, err |-> FALSE,
     steps |-> <<>>, outcomes |-> <<>>]

\* g.config.TPS / g.config.QPS, g.config.Workers and the count the worker
\* records with: g.config.BatchSize in the write-server, 1 in the
\* read-server.
WorkRate == IF wk.server = "write" THEN config.TPS ELSE rs.config.QPS
WorkPool == IF wk.server = "write" THEN config.Workers ELSE rs.config.Workers
WorkCount == IF wk.server = "write" THEN config.BatchSize ELSE 1

\* What the database answers to a call: done (TRUE) or an error (FALSE).
Answers == IF env.target = "down" THEN {FALSE} ELSE BOOLEAN

\* The worker made the database call and is at pc next.
DbCalled(name, next) ==
    [wk EXCEPT !.steps = Append(@, name), !.pc = next]

\* The database call failed: the function returns the error, through its
\* deferred calls when it has any.
DbFailed(name, next) ==
    [wk EXCEPT !.steps = Append(@, name), !.err = TRUE, !.pc = next]

Outcome(op, count) == [op |-> op, count |-> count]

(***************************************************************************)
(* The lost-update demo: the row of products with id 1 and the goroutines  *)
(* of RunSolutionDemo (variant "lock", DeductStockWithLock) or of          *)
(* RunProblemDemo (variant "problem", DeductStockWithProblem).  PostgreSQL *)
(* under READ COMMITTED: a statement reads the last committed stock; an    *)
(* UPDATE or a SELECT ... FOR UPDATE takes the row lock, waits while       *)
(* another transaction holds it, and holds it until Commit or Rollback.    *)
(* shop is [variant, initial, n, quantity, faulty, stock, txs,             *)
(* successCount, failCount]; a deduction is [pc, read, held]: its          *)
(* position, the stock its SELECT returned, whether it holds the row lock. *)
(***************************************************************************)
Deduction(pc, read, held) == [pc |-> pc, read |-> read, held |-> held]

\* The demo as written (stock 100, ten goroutines deducting 10), runs with
\* too little stock for everyone, and runs on a database whose calls can
\* fail.
DemoGoroutines == 10
Demo(variant, initial, n, quantity, faulty) ==
    [variant |-> variant, initial |-> initial, n |-> n,
     quantity |-> quantity, faulty |-> faulty, stock |-> initial,
     txs |-> [t \in {Deduction("start", 0, FALSE)} |-> n],
     successCount |-> 0, failCount |-> 0]

MaxDeductions == 3
Demos ==
    {Demo(v, 100, DemoGoroutines, 10, FALSE) : v \in {"lock", "problem"}}
    \cup
    {Demo(v, 20, MaxDeductions, 10, f) :
        v \in {"lock", "problem"}, f \in BOOLEAN}
    \cup
    {Demo(v, 100, MaxDeductions - 1, 5, TRUE) : v \in {"lock", "problem"}}

NoShop == Demo("none", 0, 0, 0, FALSE)

\* Another transaction holds the lock of the row.
RowLocked == \E t \in BagToSet(shop.txs) : t.held

SelectWithoutLock == FALSE

\* The SELECT of the deduction is a SELECT ... FOR UPDATE.
ForUpdate == shop.variant = "lock"

NewStockFromRow(t) == shop.stock - shop.quantity

\* newStock := stock - quantity, from the stock the SELECT returned.
NewStock(t) == t.read - shop.quantity

\* What the database answers to a call: done (TRUE) or an error (FALSE).
ShopAnswers == IF shop.faulty THEN BOOLEAN ELSE {TRUE}

\* The deduction returned an error (its deferred Rollback gives up the row
\* lock and discards what it wrote), or it returned nil.
Failed(t) ==
    [shop EXCEPT !.txs = Move(@, t, Deduction("done", t.read, FALSE)),
                 !.failCount = @ + 1]
Advanced(t, u) == [shop EXCEPT !.txs = Move(@, t, u)]

(***************************************************************************)
(* NewGenerator / NewCollector / main                                      *)
(***************************************************************************)
InitGenerator ==
    /\ running = FALSE
    /\ stopCh = 0
    /\ closed = {}
    /\ nextRun = 1
    /\ wg = 0
    /\ env \in Envs
    /\ config \in {Validate(c) : c \in env.configs}
    /\ workers = EmptyBag
    /\ timers = EmptyBag
    /\ call = [c \in Callers |-> IdleCall]
    /\ crashed = FALSE

Init ==
    /\ InitGenerator
    /\ col = NewCollector
    /\ mu = RWMutexFree
    /\ thr = [t \in Threads |-> IdleThread(Snapshot(0, 0, 0))]
    /\ rs = NewReadGenerator
    /\ req = NoRequest
    /\ ms = NoCall
    /\ wk = NoWork
    /\ shop = NoShop

(***************************************************************************)
(* sync.WaitGroup: Wait returns at once when the counter is zero; the Done *)
(* that brings it to zero releases every goroutine blocked in Wait.        *)
(***************************************************************************)
Waiting(c) == call[c].op = "Stop" /\ call[c].pc = "blocked"

ReleaseCallers(n) ==
    [c \in Callers |->
        IF n = 0 /\ Waiting(c) THEN Ret("Stop", "stopped") ELSE call[c]]

ReleaseTimers(n) ==
    IF n = 0
    THEN [t \in {x \in DOMAIN timers : x.pc # "blocked"} |-> timers[t]]
    ELSE timers

(***************************************************************************)
(* Generator.Start                                                         *)
(***************************************************************************)
StartCheckUnguarded(c, run) ==
    /\ call' = [call EXCEPT ![c] = At("Start", "store", 0, run)]
    /\ UNCHANGED <<running, stopCh, closed, wg, config, col, workers,
                   timers, crashed, env, mu, thr, rs, req, ms, wk, shop>>

\* if g.running.Load() { return fmt.Errorf("generator already running") }
StartCheck(c, run) ==
    /\ IF running
       THEN call' = [call EXCEPT ![c] = Ret("Start", "already running")]
       ELSE call' = [call EXCEPT ![c] = [At("Start", "store", 0, run)
                                            EXCEPT !.n = config.Workers]]
    /\ UNCHANGED <<running, stopCh, closed, wg, config, col, workers,
                   timers, crashed, env, mu, thr, rs, req, ms, wk, shop>>

\* g.running.Store(true)
StartStore(c) ==
    /\ call[c].op = "Start" /\ call[c].pc = "store"
    /\ running' = TRUE
    /\ call' = [call EXCEPT ![c].pc = "setup"]
    /\ UNCHANGED <<stopCh, closed, nextRun, wg, config, col, workers,
                   timers, crashed, env, mu, thr, rs, req, ms, wk, shop>>

StartSetupKeepingChannel(c) ==
    /\ call[c].op = "Start" /\ call[c].pc = "setup"
    /\ stopCh' = stopCh
    /\ col' = Reset(col)
    /\ timers' = IF config.Duration > 0
                 THEN Add(timers, Timer("sleep", call[c].run)) ELSE timers
    /\ call' = [call EXCEPT ![c].pc = "spawn"]
    /\ UNCHANGED <<running, closed, nextRun, wg, config, workers, crashed,
                   env, mu, thr, rs, req, ms, wk, shop>>

\* g.stopCh = make(chan struct{}); g.collector.Reset();
\* if g.config.Duration > 0 { go func() { time.Sleep(..); g.Stop() }() }
StartSetup(c) ==
    /\ call[c].op = "Start" /\ call[c].pc = "setup"
    /\ stopCh' = call[c].run
    /\ col' = Reset(col)
    /\ timers' = IF config.Duration > 0
                 THEN Add(timers, Timer("sleep", call[c].run)) ELSE timers
    /\ call' = [call EXCEPT ![c].pc = "spawn"]
    /\ UNCHANGED <<running, closed, nextRun, wg, config, workers, crashed,
                   env, mu, thr, rs, req, ms, wk, shop>>

\* for i := 0; i < g.config.Workers; i++ { g.wg.Add(1); go g.worker() }
\* return nil
StartSpawn(c) ==
    /\ call[c].op = "Start" /\ call[c].pc = "spawn"
    /\ IF call[c].i < config.Workers
       THEN /\ wg' = wg + 1
            /\ workers' = Add(workers, Worker("new", call[c].run, FALSE))
            /\ call' = [call EXCEPT ![c].i = @ + 1]
       ELSE /\ call' = [call EXCEPT ![c].pc = "ret", ![c].res = "started"]
            /\ UNCHANGED <<wg, workers>>
    /\ UNCHANGED <<running, stopCh, closed, nextRun, config, col, timers,
                   crashed, env, mu, thr, rs, req, ms, wk, shop>>

\* A call of Generator.Start, up to its check of the flag.
Start(c) ==
    /\ Idle(c)
    /\ nextRun <= env.starts
    /\ nextRun' = nextRun + 1
    /\ StartCheck(c, nextRun)

\* LoadHandler.Start: if h.generator.IsRunning() { 400 }; h.generator.Start()
LoadHandlerStart(c) ==
    /\ Idle(c)
    /\ nextRun <= env.starts
    /\ nextRun' = nextRun + 1
    /\ IF running
       THEN call' = [call EXCEPT ![c] = Ret("LoadHandler.Start", "400")]
       ELSE call' = [call EXCEPT ![c] = At("Start", "check", 0, nextRun)]
    /\ UNCHANGED <<running, stopCh, closed, wg, config, col, workers,
                   timers, crashed, env, mu, thr, rs, req, ms, wk, shop>>

StartEnter(c) ==
    /\ call[c].op = "Start" /\ call[c].pc = "check"
    /\ StartCheck(c, call[c].run)
    /\ UNCHANGED nextRun

(***************************************************************************)
(* Generator.Stop, by a caller                                             *)
(***************************************************************************)
StopCheckUnguarded(c) ==
    /\ call' = [call EXCEPT ![c] = At("Stop", "store", 0, 0)]
    /\ UNCHANGED <<running, stopCh, closed, nextRun, wg, config, col,
                   workers, timers, crashed, env, mu, thr, rs, req, ms,
                   wk, shop>>

\* if !g.running.Load() { return }
StopCheck(c) ==
    /\ IF ~running
       THEN call' = [call EXCEPT ![c] = Ret("Stop", "not running")]
       ELSE call' = [call EXCEPT ![c] = At("Stop", "store", 0, 0)]
    /\ UNCHANGED <<running, stopCh, closed, nextRun, wg, config, col,
                   workers, timers, crashed, env, mu, thr, rs, req, ms,
                   wk, shop>>

\* g.running.Store(false)
StopStore(c) ==
    /\ call[c].op = "Stop" /\ call[c].pc = "store"
    /\ running' = FALSE
    /\ call' = [call EXCEPT ![c].pc = "close"]
    /\ UNCHANGED <<stopCh, closed, nextRun, wg, config, col, workers,
                   timers, crashed, env, mu, thr, rs, req, ms, wk, shop>>

\* close(g.stopCh)
\* Closing a closed channel panics; net/http recovers a handler's panic.
StopClose(c) ==
    /\ call[c].op = "Stop" /\ call[c].pc = "close"
    /\ IF stopCh \in closed
       THEN /\ call' = [call EXCEPT ![c] = Ret("Stop", "panic")]
            /\ UNCHANGED closed
       ELSE /\ closed' = closed \cup {stopCh}
            /\ call' = [call EXCEPT ![c].pc = "wait"]
    /\ UNCHANGED <<running, stopCh, nextRun, wg, config, col, workers,
                   timers, crashed, env, mu, thr, rs, req, ms, wk, shop>>

\* g.wg.Wait()
StopWait(c) ==
    /\ call[c].op = "Stop" /\ call[c].pc = "wait"
    /\ IF wg = 0
       THEN call' = [call EXCEPT ![c] = Ret("Stop", "stopped")]
       ELSE call' = [call EXCEPT ![c].pc = "blocked"]
    /\ UNCHANGED <<running, stopCh, closed, nextRun, wg, config, col,
                   workers, timers, crashed, env, mu, thr, rs, req, ms,
                   wk, shop>>

Stop(c) ==
    /\ Idle(c)
    /\ StopCheck(c)

\* LoadHandler.Stop: if !h.generator.IsRunning() { 400 }; h.generator.Stop()
LoadHandlerStop(c) ==
    /\ Idle(c)
    /\ IF ~running
       THEN call' = [call EXCEPT ![c] = Ret("LoadHandler.Stop", "400")]
       ELSE call' = [call EXCEPT ![c] = At("Stop", "check", 0, 0)]
    /\ UNCHANGED <<running, stopCh, closed, nextRun, wg, config, col,
                   workers, timers, crashed, env, mu, thr, rs, req, ms,
                   wk, shop>>

StopEnter(c) ==
    /\ call[c].op = "Stop" /\ call[c].pc = "check"
    /\ StopCheck(c)

(***************************************************************************)
(* The duration timer goroutine of Start: time.Sleep, then g.Stop().       *)
(***************************************************************************)
\* time.Sleep returns; if !g.running.Load() { return }
TimerFire(t) ==
    /\ t.pc = "sleep"
    /\ timers' = IF ~running THEN Remove(timers, t)
                 ELSE Move(timers, t, Timer("store", t.run))
    /\ UNCHANGED <<running, stopCh, closed, nextRun, wg, config, col,
                   workers, call, crashed, env, mu, thr, rs, req, ms,
                   wk, shop>>

\* g.running.Store(false)
TimerStore(t) ==
    /\ t.pc = "store"
    /\ running' = FALSE
    /\ timers' = Move(timers, t, Timer("close", t.run))
    /\ UNCHANGED <<stopCh, closed, nextRun, wg, config, col, workers,
                   call, crashed, env, mu, thr, rs, req, ms, wk, shop>>

\* close(g.stopCh)
\* A panic in this goroutine is not recovered: the process dies.
TimerClose(t) ==
    /\ t.pc = "close"
    /\ IF stopCh \in closed
       THEN /\ crashed' = TRUE
            /\ UNCHANGED <<closed, timers>>
       ELSE /\ closed' = closed \cup {stopCh}
            /\ timers' = Move(timers, t, Timer("wait", t.run))
            /\ UNCHANGED crashed
    /\ UNCHANGED <<running, stopCh, nextRun, wg, config, col, workers, call,
                   env, mu, thr, rs, req, ms, wk, shop>>

\* g.wg.Wait(); the goroutine ends when it returns.
TimerWait(t) ==
    /\ t.pc = "wait"
    /\ timers' = IF wg = 0 THEN Remove(timers, t)
                 ELSE Move(timers, t, Timer("blocked", t.run))
    /\ UNCHANGED <<running, stopCh, closed, nextRun, wg, config, col,
                   workers, call, crashed, env, mu, thr, rs, req, ms,
                   wk, shop>>

(***************************************************************************)
(* Generator.UpdateConfig                                                  *)
(***************************************************************************)
UpdateConfigCheckUnguarded(c) ==
    /\ call' = [call EXCEPT ![c] = At("UpdateConfig", "set", 0, 0)]
    /\ UNCHANGED <<running, stopCh, closed, nextRun, wg, config, col,
                   workers, timers, crashed, env, mu, thr, rs, req, ms,
                   wk, shop>>

\* if g.running.Load() { return error }
UpdateConfigCheck(c) ==
    /\ IF running
       THEN call' = [call EXCEPT ![c] = Ret("UpdateConfig", "running")]
       ELSE call' = [call EXCEPT ![c] = At("UpdateConfig", "set", 0, 0)]
    /\ UNCHANGED <<running, stopCh, closed, nextRun, wg, config, col,
                   workers, timers, crashed, env, mu, thr, rs, req, ms,
                   wk, shop>>

\* config.Validate(); g.config = config
UpdateConfigSet(c) ==
    /\ call[c].op = "UpdateConfig" /\ call[c].pc = "set"
    /\ \E cfg \in env.configs : config' = Validate(cfg)
    /\ call' = [call EXCEPT ![c] = Ret("UpdateConfig", "updated")]
    /\ UNCHANGED <<running, stopCh, closed, nextRun, wg, col, workers,
                   timers, crashed, env, mu, thr, rs, req, ms, wk, shop>>

UpdateConfig(c) ==
    /\ Idle(c)
    /\ UpdateConfigCheck(c)

\* LoadHandler.UpdateConfig: if h.generator.IsRunning() { 400 }; decode;
\* config.Validate(); h.generator.UpdateConfig(&config)
LoadHandlerUpdateConfig(c) ==
    /\ Idle(c)
    /\ IF running
       THEN call' = [call EXCEPT ![c] = Ret("LoadHandler.UpdateConfig", "400")]
       ELSE call' = [call EXCEPT ![c] = At("UpdateConfig", "check", 0, 0)]
    /\ UNCHANGED <<running, stopCh, closed, nextRun, wg, config, col,
                   workers, timers, crashed, env, mu, thr, rs, req, ms,
                   wk, shop>>

UpdateConfigEnter(c) ==
    /\ call[c].op = "UpdateConfig" /\ call[c].pc = "check"
    /\ UpdateConfigCheck(c)

(***************************************************************************)
(* LoadHandler.ResetMetrics                                                *)
(***************************************************************************)
\* if h.generator.IsRunning() { 400; return }
LoadHandlerResetMetrics(c) ==
    /\ Idle(c)
    /\ col.startTime < env.resets
    /\ IF running
       THEN call' = [call EXCEPT ![c] = Ret("LoadHandler.ResetMetrics", "400")]
       ELSE call' = [call EXCEPT ![c] = At("ResetMetrics", "reset", 0, 0)]
    /\ UNCHANGED <<running, stopCh, closed, nextRun, wg, config, col,
                   workers, timers, crashed, env, mu, thr, rs, req, ms,
                   wk, shop>>

\* h.collector.Reset(); 200
ResetMetricsReset(c) ==
    /\ call[c].op = "ResetMetrics" /\ call[c].pc = "reset"
    /\ col' = Reset(col)
    /\ call' = [call EXCEPT ![c] = Ret("LoadHandler.ResetMetrics", "200")]
    /\ UNCHANGED <<running, stopCh, closed, nextRun, wg, config, workers,
                   timers, crashed, env, mu, thr, rs, req, ms, wk, shop>>

(***************************************************************************)
(* Generator.worker                                                        *)
(***************************************************************************)
\* if g.config.TPS > 0 { ticker = time.NewTicker(interval) }
WorkerInit(w) ==
    /\ w.pc = "new"
    /\ workers' = Move(workers, w, Worker("loop", w.run, config.TPS > 0))
    /\ UNCHANGED <<running, stopCh, closed, nextRun, wg, config, col,
                   timers, call, crashed, env, mu, thr, rs, req, ms,
                   wk, shop>>

\* select { case <-g.stopCh: return; default: ... }
\* The default branch enters the inner select on the channel the field
\* holds now, or without a ticker goes on to insertBatch.
WorkerSelect(w) ==
    /\ w.pc = "loop"
    /\ IF stopCh \in closed
       THEN workers' = Move(workers, w, Worker("exit", w.run, FALSE))
       ELSE IF w.tick
            THEN workers' = Move(workers, w,
                                 [Worker("wait", w.run, TRUE)
                                    EXCEPT !.ch = stopCh])
            ELSE workers' = Move(workers, w, Worker("op", w.run, FALSE))
    /\ UNCHANGED <<running, stopCh, closed, nextRun, wg, config, col,
                   timers, call, crashed, env, mu, thr, rs, req, ms,
                   wk, shop>>

\* select { case <-tickerCh: case <-g.stopCh: return }
\* With both channels ready the select picks either.
WorkerWait(w) ==
    /\ w.pc = "wait"
    /\ \/ workers' = Move(workers, w, Worker("op", w.run, TRUE))
       \/ /\ w.ch \in closed
          /\ workers' = Move(workers, w, Worker("exit", w.run, FALSE))
    /\ UNCHANGED <<running, stopCh, closed, nextRun, wg, config, col,
                   timers, call, crashed, env, mu, thr, rs, req, ms,
                   wk, shop>>

\* insertBatch returns: RecordSuccess after Commit, else RecordFailure.
\* total_requests is counted up to MaxTotal.
WorkerOp(w) ==
    /\ w.pc = "op"
    /\ IF col.totalRequests < MaxTotal
       THEN \/ /\ env.target = "flaky"
               /\ \E lat \in OpLatencies :
                     col' = RecordSuccess(col, lat, config.BatchSize)
            \/ col' = RecordFailure(col, config.BatchSize)
       ELSE UNCHANGED col
    /\ workers' = Move(workers, w, Worker("loop", w.run, w.tick))
    /\ UNCHANGED <<running, stopCh, closed, nextRun, wg, config, timers,
                   call, crashed, env, mu, thr, rs, req, ms, wk, shop>>

\* defer g.wg.Done()
WorkerDone(w) ==
    /\ w.pc = "exit"
    /\ wg' = wg - 1
    /\ workers' = Remove(workers, w)
    /\ call' = ReleaseCallers(wg - 1)
    /\ timers' = ReleaseTimers(wg - 1)
    /\ UNCHANGED <<running, stopCh, closed, nextRun, config, col, crashed,
                   env, mu, thr, rs, req, ms, wk, shop>>

worker(w) ==
    \/ WorkerInit(w)
    \/ WorkerSelect(w)
    \/ WorkerWait(w)
    \/ WorkerOp(w)
    \/ WorkerDone(w)

(***************************************************************************)
(* The program                                                             *)
(***************************************************************************)
\* The call returns to its caller: the HTTP response is written.
Return(c) ==
    /\ call[c].pc = "ret"
    /\ call' = [call EXCEPT ![c] = IdleCall]
    /\ UNCHANGED <<running, stopCh, closed, nextRun, wg, config, col,
                   workers, timers, crashed, env, mu, thr, rs, req, ms,
                   wk, shop>>

CallerStep ==
    \E c \in Callers :
        \/ Start(c)
        \/ LoadHandlerStart(c)
        \/ StartEnter(c)
        \/ StartStore(c)
        \/ StartSetup(c)
        \/ StartSpawn(c)
        \/ Stop(c)
        \/ LoadHandlerStop(c)
        \/ StopEnter(c)
        \/ StopStore(c)
        \/ StopClose(c)
        \/ StopWait(c)
        \/ UpdateConfig(c)
        \/ LoadHandlerUpdateConfig(c)
        \/ UpdateConfigEnter(c)
        \/ UpdateConfigSet(c)
        \/ LoadHandlerResetMetrics(c)
        \/ ResetMetricsReset(c)

TimerStep ==
    \E t \in BagToSet(timers) :
        \/ TimerFire(t)
        \/ TimerStore(t)
        \/ TimerClose(t)
        \/ TimerWait(t)

WorkerStep ==
    \E w \in BagToSet(workers) : worker(w)

\* A return touches nothing shared: it is taken as soon as it is due.
Returning == \E c \in Callers : call[c].pc = "ret"

Next ==
    /\ ~crashed
    /\ IF Returning
       THEN \E c \in Callers : Return(c)
       ELSE \/ CallerStep
            \/ TimerStep
            \/ WorkerStep

Spec == Init /\ [][Next]_vars

(***************************************************************************)
(* The scheduler: every goroutine that can take a step eventually takes    *)
(* one (a sleep ends, an operation in flight completes, a call in progress *)
(* goes on).  Clients are not obliged to issue requests.                   *)
(***************************************************************************)
WorkerPcs == {"new", "loop", "wait", "op", "exit"}
TimerPcs == {"sleep", "store", "close", "wait"}

CallStep(c) ==
    \/ StartEnter(c)
    \/ StartStore(c)
    \/ StartSetup(c)
    \/ StartSpawn(c)
    \/ StopEnter(c)
    \/ StopStore(c)
    \/ StopClose(c)
    \/ StopWait(c)
    \/ UpdateConfigEnter(c)
    \/ UpdateConfigSet(c)
    \/ ResetMetricsReset(c)
    \/ Return(c)

WorkerAt(r, p) ==
    \E w \in BagToSet(workers) : w.run = r /\ w.pc = p /\ worker(w)

TimerAt(r, p) ==
    \E t \in BagToSet(timers) :
        /\ t.run = r /\ t.pc = p
        /\ TimerFire(t) \/ TimerStore(t) \/ TimerClose(t) \/ TimerWait(t)

Fairness ==
    /\ \A c \in Callers : WF_vars(~crashed /\ CallStep(c))
    /\ \A r \in 1..MaxStarts : \A p \in WorkerPcs :
           WF_vars(~crashed /\ WorkerAt(r, p))
    /\ \A r \in 1..MaxStarts : \A p \in TimerPcs :
           WF_vars(~crashed /\ TimerAt(r, p))

FairInit == Init /\ env \in {SequentialEnv, RestartEnv, ResetEnv, DownEnv}

FairSpec == FairInit /\ [][Next]_vars /\ Fairness

(***************************************************************************)
(* metrics.Collector under its sync.RWMutex, one step per statement.       *)
(* Lock waits for the writer and the readers to leave, RLock for the       *)
(* writer.                                                                 *)
(***************************************************************************)
\* Record calls begin while the collector has seen fewer Resets than this.
MaxResets == 2

\* count arguments: the BatchSize of a worker, 1 of a single-row handler.
Counts == {1, 2}

Writers == {"RecordSuccess", "RecordFailure", "Reset"}

In(t, op, pc) == thr[t].op = op /\ thr[t].pc = pc

CanLock == mu.w = 0 /\ mu.r = {}

CanRLockUnguarded == TRUE

CanRLock == mu.w = 0

\* A goroutine calls a collector method.
CollectorCall(t) ==
    /\ thr[t].pc = "idle"
    /\ \E op \in Writers \cup {"GetMetrics"} :
       \E count \in Counts : \E latency \in OpLatencies :
          /\ op \in {"RecordSuccess", "RecordFailure"} =>
                col.totalRequests < MaxRecorded
          /\ op = "Reset" => col.startTime < MaxResets
          /\ thr' = [thr EXCEPT ![t] =
                [op |-> op, pc |-> "lock",
                 count |-> IF op \in {"RecordSuccess", "RecordFailure"}
                           THEN count ELSE 0,
                 latency |-> IF op = "RecordSuccess" THEN latency ELSE 0,
                 read |-> Snapshot(0, 0, 0), ret |-> Snapshot(0, 0, 0)]]
    /\ UNCHANGED <<col, mu, lifecycle>>

\* c.mu.Lock()
MuLock(t) ==
    /\ thr[t].pc = "lock" /\ thr[t].op \in Writers
    /\ CanLock
    /\ mu' = [mu EXCEPT !.w = t]
    /\ thr' = [thr EXCEPT ![t].pc = "total"]
    /\ UNCHANGED <<col, lifecycle>>

\* c.mu.RLock()
MuRLock(t) ==
    /\ In(t, "GetMetrics", "lock")
    /\ CanRLock
    /\ mu' = [mu EXCEPT !.r = @ \cup {t}]
    /\ thr' = [thr EXCEPT ![t].pc = "total"]
    /\ UNCHANGED <<col, lifecycle>>

\* c.totalRequests += int64(count)
RecordTotal(t) ==
    /\ thr[t].op \in {"RecordSuccess", "RecordFailure"} /\ thr[t].pc = "total"
    /\ col' = [col EXCEPT !.totalRequests = @ + thr[t].count]
    /\ thr' = [thr EXCEPT ![t].pc =
                  IF thr[t].op = "RecordSuccess" THEN "success" ELSE "failed"]
    /\ UNCHANGED <<mu, lifecycle>>

\* c.successRequests += int64(count)
RecordSuccessCount(t) ==
    /\ In(t, "RecordSuccess", "success")
    /\ col' = [col EXCEPT !.successRequests = @ + thr[t].count]
    /\ thr' = [thr EXCEPT ![t].pc = "append"]
    /\ UNCHANGED <<mu, lifecycle>>

\* if len(c.latencies) < c.maxLatencies { c.latencies = append(..) }
RecordSuccessAppend(t) ==
    /\ In(t, "RecordSuccess", "append")
    /\ col' = [col EXCEPT !.latencies =
                  IF Len(@) < col.maxLatencies
                  THEN Append(@, thr[t].latency) ELSE @]
    /\ thr' = [thr EXCEPT ![t].pc = "unlock"]
    /\ UNCHANGED <<mu, lifecycle>>

\* c.failedRequests += int64(count)
RecordFailureCount(t) ==
    /\ In(t, "RecordFailure", "failed")
    /\ col' = [col EXCEPT !.failedRequests = @ + thr[t].count]
    /\ thr' = [thr EXCEPT ![t].pc = "unlock"]
    /\ UNCHANGED <<mu, lifecycle>>

\* c.totalRequests = 0
ResetTotal(t) ==
    /\ In(t, "Reset", "total")
    /\ col' = [col EXCEPT !.totalRequests = 0]
    /\ thr' = [thr EXCEPT ![t].pc = "success"]
    /\ UNCHANGED <<mu, lifecycle>>

\* c.successRequests = 0
ResetSuccess(t) ==
    /\ In(t, "Reset", "success")
    /\ col' = [col EXCEPT !.successRequests = 0]
    /\ thr' = [thr EXCEPT ![t].pc = "failed"]
    /\ UNCHANGED <<mu, lifecycle>>

\* c.failedRequests = 0; c.latencies = make(..); c.startTime = time.Now()
ResetRest(t) ==
    /\ In(t, "Reset", "failed")
    /\ col' = [col EXCEPT !.failedRequests = 0, !.latencies = <<>>,
                          !.startTime = @ + 1]
    /\ thr' = [thr EXCEPT ![t].pc = "unlock"]
    /\ UNCHANGED <<mu, lifecycle>>

\* Metrics{TotalRequests: c.totalRequests,
GetMetricsTotal(t) ==
    /\ In(t, "GetMetrics", "total")
    /\ thr' = [thr EXCEPT ![t].read.total = col.totalRequests,
                          ![t].pc = "success"]
    /\ UNCHANGED <<col, mu, lifecycle>>

\*         SuccessRequests: c.successRequests,
GetMetricsSuccess(t) ==
    /\ In(t, "GetMetrics", "success")
    /\ thr' = [thr EXCEPT ![t].read.success = col.successRequests,
                          ![t].pc = "failed"]
    /\ UNCHANGED <<col, mu, lifecycle>>

\*         FailedRequests: c.failedRequests, ...}
GetMetricsFailed(t) ==
    /\ In(t, "GetMetrics", "failed")
    /\ thr' = [thr EXCEPT ![t].read.failed = col.failedRequests,
                          ![t].pc = "unlock"]
    /\ UNCHANGED <<col, mu, lifecycle>>

\* defer c.mu.Unlock()
MuUnlock(t) ==
    /\ thr[t].pc = "unlock" /\ thr[t].op \in Writers
    /\ mu' = [mu EXCEPT !.w = 0]
    /\ thr' = [thr EXCEPT ![t] = IdleThread(Snapshot(0, 0, 0))]
    /\ UNCHANGED <<col, lifecycle>>

\* defer c.mu.RUnlock(); the snapshot is returned.
MuRUnlock(t) ==
    /\ In(t, "GetMetrics", "unlock")
    /\ mu' = [mu EXCEPT !.r = @ \ {t}]
    /\ thr' = [thr EXCEPT ![t] = IdleThread(thr[t].read)]
    /\ UNCHANGED <<col, lifecycle>>

CollectorNext ==
    \E t \in Threads :
        \/ CollectorCall(t)
        \/ MuLock(t)
        \/ MuRLock(t)
        \/ RecordTotal(t)
        \/ RecordSuccessCount(t)
        \/ RecordSuccessAppend(t)
        \/ RecordFailureCount(t)
        \/ ResetTotal(t)
        \/ ResetSuccess(t)
        \/ ResetRest(t)
        \/ GetMetricsTotal(t)
        \/ GetMetricsSuccess(t)
        \/ GetMetricsFailed(t)
        \/ MuUnlock(t)
        \/ MuRUnlock(t)

CollectorInit ==
    /\ Init
    /\ env = SequentialEnv
    /\ config = Validate([TPS |-> 0, BatchSize |-> 1, Workers |-> 1,
                          Duration |-> 0, IsolationLevel |-> ""])

CollectorSpec == CollectorInit /\ [][CollectorNext]_vars

(***************************************************************************)
(* Validate and the read-server Generator.UpdateConfig, one call a step.   *)
(***************************************************************************)
\* config.Validate() of the write-server, as its handlers call it.
ValidateWrite ==
    /\ req.n < MaxRequests
    /\ \E c \in WriteConfigInputs :
          req' = Request("Validate", c, Validate(c), "nil")
    /\ UNCHANGED <<running, stopCh, closed, nextRun, wg, config, col,
                   workers, timers, call, crashed, env, mu, thr, rs, ms,
                   wk, shop>>

\* config.Validate() of the read-server, as LoadHandler.UpdateConfig calls it.
ValidateRead ==
    /\ req.n < MaxRequests
    /\ \E c \in ReadConfigInputs :
          req' = Request("ReadValidate", c, ReadValidate(c).config,
                         ReadValidate(c).err)
    /\ UNCHANGED <<running, stopCh, closed, nextRun, wg, config, col,
                   workers, timers, call, crashed, env, mu, thr, rs, ms,
                   wk, shop>>

\* Generator.UpdateConfig (read-server)
ReadUpdateConfig ==
    /\ req.n < MaxRequests
    /\ \E c \in ReadConfigInputs :
          IF rs.running
          THEN /\ req' = Request("UpdateConfig", c, c, "running")
               /\ UNCHANGED rs
          ELSE IF ReadValidate(c).err # "nil"
          THEN /\ req' = Request("UpdateConfig", c, ReadValidate(c).config,
                                 ReadValidate(c).err)
               /\ UNCHANGED rs
          ELSE /\ req' = Request("UpdateConfig", c, ReadValidate(c).config,
                                 "nil")
               /\ rs' = [rs EXCEPT !.config = ReadValidate(c).config]
    /\ UNCHANGED <<running, stopCh, closed, nextRun, wg, config, col,
                   workers, timers, call, crashed, env, mu, thr, ms,
                   wk, shop>>

ReadNext ==
    \/ ValidateWrite
    \/ ValidateRead
    \/ ReadUpdateConfig

ReadInit ==
    /\ Init
    /\ env = SequentialEnv
    /\ config = Validate([TPS |-> 0, BatchSize |-> 1, Workers |-> 1,
                          Duration |-> 0, IsolationLevel |-> ""])

ReadSpec == ReadInit /\ [][ReadNext]_vars

(***************************************************************************)
(* metrics.Collector, one method call a step (its critical section).       *)
(***************************************************************************)
\* count arguments of RecordFailure: a worker passes config.BatchSize, which
\* Validate lets be any int from 1 up, and fails before it builds the batch
\* when Begin fails.  A batch that was inserted has a count in Counts.
FailureCounts == Counts \cup {MaxInt}

CallRecordSuccess ==
    /\ ms.left > 0
    /\ \E latency \in SampleLatencies : \E count \in Counts :
          /\ col' = RecordSuccess(col, latency, count)
          /\ ms' = Called("RecordSuccess", count, latency, ms.ret)
    /\ UNCHANGED <<running, stopCh, closed, nextRun, wg, config, workers,
                   timers, call, crashed, env, mu, thr, rs, req, wk, shop>>

CallRecordFailure ==
    /\ ms.left > 0
    /\ \E count \in FailureCounts :
          /\ col' = RecordFailure(col, count)
          /\ ms' = Called("RecordFailure", count, 0, ms.ret)
    /\ UNCHANGED <<running, stopCh, closed, nextRun, wg, config, workers,
                   timers, call, crashed, env, mu, thr, rs, req, wk, shop>>

CallReset ==
    /\ ms.left > 0
    /\ col' = Reset(col)
    /\ ms' = Called("Reset", 0, 0, ms.ret)
    /\ UNCHANGED <<running, stopCh, closed, nextRun, wg, config, workers,
                   timers, call, crashed, env, mu, thr, rs, req, wk, shop>>

CallGetMetrics ==
    /\ ms.left > 0
    /\ ms' = Called("GetMetrics", 0, 0, GetMetrics(col))
    /\ col' = GetMetricsLeaves(col)
    /\ UNCHANGED <<running, stopCh, closed, nextRun, wg, config, workers,
                   timers, call, crashed, env, mu, thr, rs, req, wk, shop>>

MetricsNext ==
    \/ CallRecordSuccess
    \/ CallRecordFailure
    \/ CallReset
    \/ CallGetMetrics

MetricsInit ==
    /\ InitGenerator
    /\ env = SequentialEnv
    /\ config = Validate([TPS |-> 0, BatchSize |-> 1, Workers |-> 1,
                          Duration |-> 0, IsolationLevel |-> ""])
    /\ mu = RWMutexFree
    /\ thr = [t \in Threads |-> IdleThread(Snapshot(0, 0, 0))]
    /\ rs = NewReadGenerator
    /\ req = NoRequest
    /\ \/ col = SmallCollector /\ ms = [NoCall EXCEPT !.left = MaxCalls]
       \/ col \in FilledCollectors /\ ms = [NoCall EXCEPT !.left = FilledCalls]
    /\ wk = NoWork
    /\ shop = NoShop

MetricsSpec == MetricsInit /\ [][MetricsNext]_vars

(***************************************************************************)
(* Generator.worker with insertBatch (write-server) or selectQueryType and *)
(* executeQuery (read-server), one database call a step.                   *)
(***************************************************************************)
\* if g.config.TPS > 0 { ...; ticker = time.NewTicker(interval) }
\* NewTicker panics when the interval is not positive; the panic of a
\* worker goroutine ends the process.
WorkTicker ==
    /\ wk.pc = "new"
    /\ IF WorkRate > 0
       THEN /\ wk' = [wk EXCEPT
                        !.interval = Interval(WorkRate, WorkPool),
                        !.ticker = Interval(WorkRate, WorkPool) > 0,
                        !.pc = IF Interval(WorkRate, WorkPool) > 0
                               THEN "loop" ELSE "panic"]
            /\ crashed' = ~(Interval(WorkRate, WorkPool) > 0)
       ELSE /\ wk' = [wk EXCEPT !.pc = "loop"]
            /\ crashed' = crashed
    /\ UNCHANGED <<running, stopCh, closed, nextRun, wg, config, col,
                   workers, timers, call, env, mu, thr, rs, req, ms, shop>>

WorkIterateTicking ==
    /\ wk.pc = "loop"
    /\ wk.iter < MaxIterations
    /\ stopCh \notin closed
    /\ wk' = [wk EXCEPT !.pc = "tick",
                        !.r = -1, !.kind = "", !.tx = "none",
                        !.rows = FALSE, !.err = FALSE, !.steps = <<>>,
                        !.outcomes = <<>>]
    /\ UNCHANGED <<running, stopCh, closed, nextRun, wg, config, col,
                   workers, timers, call, crashed, env, mu, thr, rs, req, ms,
                   shop>>

\* for { select { case <-g.stopCh: return; default: if tickerCh != nil {
\* the inner select } ... : the default branch is taken when the stop
\* channel is not closed.
WorkIterate ==
    /\ wk.pc = "loop"
    /\ wk.iter < MaxIterations
    /\ stopCh \notin closed
    /\ wk' = [wk EXCEPT !.pc = IF wk.ticker THEN "tick" ELSE "run",
                        !.r = -1, !.kind = "", !.tx = "none",
                        !.rows = FALSE, !.err = FALSE, !.steps = <<>>,
                        !.outcomes = <<>>]
    /\ UNCHANGED <<running, stopCh, closed, nextRun, wg, config, col,
                   workers, timers, call, crashed, env, mu, thr, rs, req, ms,
                   shop>>

\* case <-g.stopCh: return, at the outer or at the inner select;
\* defer g.wg.Done()
WorkStopped ==
    /\ wk.pc \in {"loop", "tick"}
    /\ stopCh \in closed
    /\ wk' = [wk EXCEPT !.pc = "exit"]
    /\ wg' = wg - 1
    /\ UNCHANGED <<running, stopCh, closed, nextRun, config, col, workers,
                   timers, call, crashed, env, mu, thr, rs, req, ms, shop>>

\* Generator.Stop by a client, up to g.wg.Wait(): g.running.Store(false);
\* close(g.stopCh)
WorkStop ==
    /\ running /\ ~crashed
    /\ wk.pc # "new"
    /\ running' = FALSE
    /\ closed' = closed \cup {stopCh}
    /\ UNCHANGED <<stopCh, nextRun, wg, config, col, workers, timers, call,
                   crashed, env, mu, thr, rs, req, ms, wk, shop>>

\* case <-tickerCh:
WorkTick ==
    /\ wk.pc = "tick"
    /\ wk' = [wk EXCEPT !.pc = "run"]
    /\ UNCHANGED <<running, stopCh, closed, nextRun, wg, config, col,
                   workers, timers, call, crashed, env, mu, thr, rs, req, ms,
                   shop>>

\* g.insertBatch() is called; queryType := g.selectQueryType() and
\* g.executeQuery(queryType)
WorkRun ==
    /\ wk.pc = "run"
    /\ IF wk.server = "write"
       THEN wk' = [wk EXCEPT !.pc = "begin"]
       ELSE \E r \in Draws :
               wk' = [wk EXCEPT !.r = r,
                                !.kind = selectQueryType(rs.config.QueryMix, r),
                                !.pc = "begin"]
    /\ UNCHANGED <<running, stopCh, closed, nextRun, wg, config, col,
                   workers, timers, call, crashed, env, mu, thr, rs, req, ms,
                   shop>>

\* tx, err := g.db.Begin(); if err != nil { return err }; defer tx.Rollback()
TxBegin ==
    /\ wk.pc = "begin"
    /\ \E ok \in Answers :
          wk' = IF ok THEN [DbCalled("Begin", "setiso") EXCEPT !.tx = "open",
                                                              !.r = -1]
                ELSE [DbFailed("Begin", "returned") EXCEPT !.r = -1]
    /\ UNCHANGED <<running, stopCh, closed, nextRun, wg, config, col,
                   workers, timers, call, crashed, env, mu, thr, rs, req, ms,
                   shop>>

\* tx.Exec("SET TRANSACTION ISOLATION LEVEL ..."); on error return err
TxSetIsolation ==
    /\ wk.pc = "setiso"
    /\ \E ok \in Answers :
          wk' = IF ok THEN DbCalled("SetIsolation",
                                    IF wk.server = "write" THEN "exec"
                                    ELSE "query")
                ELSE DbFailed("SetIsolation", "deferred")
    /\ UNCHANGED <<running, stopCh, closed, nextRun, wg, config, col,
                   workers, timers, call, crashed, env, mu, thr, rs, req, ms,
                   shop>>

\* _, err = tx.Exec(INSERT ...); if err != nil { return err }
TxExec ==
    /\ wk.pc = "exec"
    /\ \E ok \in Answers :
          wk' = IF ok THEN DbCalled("Exec", "commit")
                ELSE DbFailed("Exec", "deferred")
    /\ UNCHANGED <<running, stopCh, closed, nextRun, wg, config, col,
                   workers, timers, call, crashed, env, mu, thr, rs, req, ms,
                   shop>>

\* rows, err := tx.Query(query); if err != nil { return err };
\* defer rows.Close()
TxQuery ==
    /\ wk.pc = "query"
    /\ \E ok \in Answers :
          wk' = IF ok THEN [DbCalled("Query", "rows") EXCEPT !.rows = TRUE]
                ELSE DbFailed("Query", "deferred")
    /\ UNCHANGED <<running, stopCh, closed, nextRun, wg, config, col,
                   workers, timers, call, crashed, env, mu, thr, rs, req, ms,
                   shop>>

\* for rows.Next() { rows.Scan(...) }; rows.Err(): an error of either
\* returns err
RowsRead ==
    /\ wk.pc = "rows"
    /\ \E ok \in Answers :
          wk' = IF ok THEN DbCalled("Rows", "commit")
                ELSE DbFailed("Rows", "deferred")
    /\ UNCHANGED <<running, stopCh, closed, nextRun, wg, config, col,
                   workers, timers, call, crashed, env, mu, thr, rs, req, ms,
                   shop>>

\* if err := tx.Commit(); err != nil { return err }.  Commit ends the
\* transaction whether it succeeds or not: a failed Commit leaves it
\* aborted, and the deferred Rollback finds it done.
TxCommit ==
    /\ wk.pc = "commit"
    /\ \E ok \in Answers :
          wk' = IF ok THEN [DbCalled("Commit", "record") EXCEPT
                               !.tx = "committed"]
                ELSE [DbFailed("Commit", "deferred") EXCEPT !.tx = "aborted"]
    /\ UNCHANGED <<running, stopCh, closed, nextRun, wg, config, col,
                   workers, timers, call, crashed, env, mu, thr, rs, req, ms,
                   shop>>

\* latency := time.Since(start); g.collector.RecordSuccess(latency, ...);
\* return nil
WorkRecordSuccess ==
    /\ wk.pc = "record"
    /\ \E lat \in OpLatencies : col' = RecordSuccess(col, lat, WorkCount)
    /\ wk' = [wk EXCEPT !.outcomes =
                            Append(@, Outcome("RecordSuccess", WorkCount)),
                        !.pc = "deferred"]
    /\ UNCHANGED <<running, stopCh, closed, nextRun, wg, config, workers,
                   timers, call, crashed, env, mu, thr, rs, req, ms, shop>>

DeferredWithoutRollback ==
    /\ wk.pc = "deferred"
    /\ wk' = [wk EXCEPT !.rows = FALSE, !.pc = "returned"]
    /\ UNCHANGED <<running, stopCh, closed, nextRun, wg, config, col,
                   workers, timers, call, crashed, env, mu, thr, rs, req, ms,
                   shop>>

\* The deferred calls, last first: rows.Close(), then tx.Rollback(), which
\* rolls back a transaction that is still open.
Deferred ==
    /\ wk.pc = "deferred"
    /\ wk' = [wk EXCEPT !.rows = FALSE,
                        !.steps = Append(@, "Rollback"),
                        !.tx = IF @ = "open" THEN "rolledback" ELSE @,
                        !.pc = "returned"]
    /\ UNCHANGED <<running, stopCh, closed, nextRun, wg, config, col,
                   workers, timers, call, crashed, env, mu, thr, rs, req, ms,
                   shop>>

WorkReturnedRecordingAlways ==
    /\ wk.pc = "returned"
    /\ col' = RecordFailure(col, WorkCount)
    /\ wk' = [wk EXCEPT !.outcomes =
                            Append(@, Outcome("RecordFailure", WorkCount)),
                        !.iter = @ + 1, !.pc = "loop"]
    /\ UNCHANGED <<running, stopCh, closed, nextRun, wg, config, workers,
                   timers, call, crashed, env, mu, thr, rs, req, ms, shop>>

\* if err := g.insertBatch(); err != nil { g.collector.RecordFailure(...) };
\* the loop goes round.
WorkReturned ==
    /\ wk.pc = "returned"
    /\ IF wk.err
       THEN /\ col' = RecordFailure(col, WorkCount)
            /\ wk' = [wk EXCEPT !.outcomes =
                                    Append(@, Outcome("RecordFailure",
                                                      WorkCount)),
                                !.iter = @ + 1, !.pc = "loop"]
       ELSE /\ col' = col
            /\ wk' = [wk EXCEPT !.iter = @ + 1, !.pc = "loop"]
    /\ UNCHANGED <<running, stopCh, closed, nextRun, wg, config, workers,
                   timers, call, crashed, env, mu, thr, rs, req, ms, shop>>

WorkNext ==
    \/ WorkTicker
    \/ WorkIterate
    \/ WorkStopped
    \/ WorkStop
    \/ WorkTick
    \/ WorkRun
    \/ TxBegin
    \/ TxSetIsolation
    \/ TxExec
    \/ TxQuery
    \/ RowsRead
    \/ TxCommit
    \/ WorkRecordSuccess
    \/ Deferred
    \/ WorkReturned

\* A worker of a started write-server generator, or of a read-server one.
WorkInit ==
    /\ running = TRUE
    /\ stopCh = 1
    /\ closed = {}
    /\ nextRun = 2
    /\ wg = 1
    /\ workers = EmptyBag
    /\ timers = EmptyBag
    /\ call = [c \in Callers |-> IdleCall]
    /\ crashed = FALSE
    /\ env \in {SequentialEnv, DownEnv}
    /\ col = NewCollector
    /\ mu = RWMutexFree
    /\ thr = [t \in Threads |-> IdleThread(Snapshot(0, 0, 0))]
    /\ req = NoRequest
    /\ ms = NoCall
    /\ shop = NoShop
    /\ \/ /\ config \in WorkWriteConfigs
          /\ rs = NewReadGenerator
          /\ wk = [NoWork EXCEPT !.server = "write", !.pc = "new"]
       \/ /\ config = Validate([TPS |-> 0, BatchSize |-> 1, Workers |-> 1,
                                Duration |-> 0, IsolationLevel |-> ""])
          /\ \E c \in WorkReadConfigs :
                rs = [running |-> TRUE, config |-> c]
          /\ wk = [NoWork EXCEPT !.server = "read", !.pc = "new"]

WorkSpec == WorkInit /\ [][WorkNext]_vars

(***************************************************************************)
(* DeductStockWithLock / DeductStockWithProblem, one database call a step. *)
(***************************************************************************)
\* tx, err := db.Begin(); defer tx.Rollback()
DeductBegin(t) ==
    /\ t.pc = "start"
    /\ \E ok \in ShopAnswers :
          shop' = IF ok THEN Advanced(t, Deduction("select", 0, FALSE))
                  ELSE Failed(t)
    /\ UNCHANGED <<running, stopCh, closed, nextRun, wg, config, col,
                   workers, timers, call, crashed, env, mu, thr, rs, req, ms,
                   wk>>

\* tx.QueryRow("SELECT stock ... [FOR UPDATE]").Scan(&stock)
DeductSelect(t) ==
    /\ t.pc = "select"
    /\ ForUpdate => ~RowLocked
    /\ \E ok \in ShopAnswers :
          shop' = IF ok
                  THEN Advanced(t, Deduction("check", shop.stock, ForUpdate))
                  ELSE Failed(t)
    /\ UNCHANGED <<running, stopCh, closed, nextRun, wg, config, col,
                   workers, timers, call, crashed, env, mu, thr, rs, req, ms,
                   wk>>

DeductCheckSkipped(t) ==
    /\ t.pc = "check"
    /\ shop' = Advanced(t, Deduction("update", t.read, t.held))
    /\ UNCHANGED <<running, stopCh, closed, nextRun, wg, config, col,
                   workers, timers, call, crashed, env, mu, thr, rs, req, ms,
                   wk>>

\* if stock < quantity { return error }; time.Sleep
DeductCheck(t) ==
    /\ t.pc = "check"
    /\ shop' = IF t.read < shop.quantity THEN Failed(t)
               ELSE Advanced(t, Deduction("update", t.read, t.held))
    /\ UNCHANGED <<running, stopCh, closed, nextRun, wg, config, col,
                   workers, timers, call, crashed, env, mu, thr, rs, req, ms,
                   wk>>

\* tx.Exec("UPDATE products SET stock = $1 WHERE id = $2", newStock, ...)
\* The statement fails when newStock breaks CHECK (stock >= 0).
DeductUpdate(t) ==
    /\ t.pc = "update"
    /\ t.held \/ ~RowLocked
    /\ \E ok \in ShopAnswers :
          shop' = IF ok /\ NewStock(t) >= 0
                  THEN Advanced(t, Deduction("commit", t.read, TRUE))
                  ELSE Failed(t)
    /\ UNCHANGED <<running, stopCh, closed, nextRun, wg, config, col,
                   workers, timers, call, crashed, env, mu, thr, rs, req, ms,
                   wk>>

\* tx.Commit(); return nil
DeductCommit(t) ==
    /\ t.pc = "commit"
    /\ \E ok \in ShopAnswers :
          shop' = IF ok
                  THEN [shop EXCEPT
                          !.stock = NewStock(t),
                          !.txs = Move(@, t, Deduction("done", t.read, FALSE)),
                          !.successCount = @ + 1]
                  ELSE Failed(t)
    /\ UNCHANGED <<running, stopCh, closed, nextRun, wg, config, col,
                   workers, timers, call, crashed, env, mu, thr, rs, req, ms,
                   wk>>

StockNext ==
    \E t \in BagToSet(shop.txs) :
        \/ DeductBegin(t)
        \/ DeductSelect(t)
        \/ DeductCheck(t)
        \/ DeductUpdate(t)
        \/ DeductCommit(t)

StockInit ==
    /\ InitGenerator
    /\ env = SequentialEnv
    /\ config = Validate([TPS |-> 0, BatchSize |-> 1, Workers |-> 1,
                          Duration |-> 0, IsolationLevel |-> ""])
    /\ col = NewCollector
    /\ mu = RWMutexFree
    /\ thr = [t \in Threads |-> IdleThread(Snapshot(0, 0, 0))]
    /\ rs = NewReadGenerator
    /\ req = NoRequest
    /\ ms = NoCall
    /\ wk = NoWork
    /\ shop \in Demos

StockSpec == StockInit /\ [][StockNext]_vars

(***************************************************************************)
(* Properties                                                              *)
(***************************************************************************)
Consistent(s) == s.total = s.success + s.failed

NeverStarted ==
    /\ ~running
    /\ closed = {}
    /\ col.startTime = 0
    /\ timers = EmptyBag
    /\ \A c \in Callers : call[c].op # "Stop"

PassedCheck(c) == call[c].op = "Start" /\ call[c].pc = "store"

\* C2: of two Start calls in flight at once on a generator that has not
\* been started, at most one gets past the already-running check (the
\* other returns the error), so only one of them resets and spawns.
C2_OneStartPassesTheCheck ==
    \A c1, c2 \in Callers :
        (c1 # c2 /\ NeverStarted) => ~(PassedCheck(c1) /\ PassedCheck(c2))

\* The step in which a call of Generator.Start evaluates g.running.Load().
StartCheckStep(c) ==
    /\ call[c].pc \in {"idle", "check"}
    /\ call'[c].op = "Start" /\ call'[c].pc \in {"store", "ret"}

\* C3: a Start call that finds the generator running returns the
\* already-running error and changes nothing: no worker is spawned, the
\* stop channel is neither replaced nor closed, the metrics are not reset,
\* the flag stays true; the HTTP adapter answers 400 the same way.
C3_StartWhileRunningHasNoEffect ==
    [][\A c \in Callers :
          /\ (running /\ StartCheckStep(c)) =>
                /\ call'[c] = Ret("Start", "already running")
                /\ UNCHANGED <<running, stopCh, closed, wg, config, col,
                               workers, timers>>
          /\ (running /\ call[c].pc = "idle"
                /\ \/ call'[c].op = "LoadHandler.Start"
                   \/ call'[c].op = "Start" /\ call'[c].pc = "check") =>
                /\ call'[c] = Ret("LoadHandler.Start", "400")
                /\ UNCHANGED <<running, stopCh, closed, wg, config, col,
                               workers, timers>>
      ]_vars

\* Start has answered already-running while a run with live workers goes on.
C3_Witness ==
    \E c \in Callers :
        /\ call[c] = Ret("Start", "already running")
        /\ running
        /\ workers # EmptyBag

WorkersOf(r) == {w \in BagToSet(workers) : w.run = r}

\* C4: when a Start call returns "started" it has spawned exactly
\* config.Workers workers, of the config it found or of the config in
\* force now.
C4_StartSpawnsConfigWorkers ==
    \A c \in Callers :
        (call[c].op = "Start" /\ call[c].pc = "ret"
            /\ call[c].res = "started")
        => call[c].i \in {call[c].n, config.Workers}

\* No control call is in flight and no timer is inside g.Stop().
Quiescent ==
    /\ \A c \in Callers : call[c] = IdleCall
    /\ \A t \in BagToSet(timers) : t.pc = "sleep"

\* C5: after a Stop call on a running generator has returned, and until
\* Start is called again, no worker records an outcome: while the flag is
\* false and no control call is in flight, no worker has an operation in
\* flight (insertBatch ends in RecordSuccess or RecordFailure).
C5_NoOutcomeAfterStopReturned ==
    (~running /\ Quiescent) => \A w \in BagToSet(workers) : w.pc # "op"

InStop(c) ==
    call[c].op = "Stop" /\ call[c].pc \in {"store", "close", "wait", "blocked"}

\* C6: under fair scheduling a Stop call that found the generator running
\* eventually returns (as long as the process lives).
C6_StopEventuallyReturns ==
    \A c \in Callers : InStop(c) ~> (~InStop(c) \/ crashed)

OpsInFlight ==
    BagCardinality([w \in {x \in DOMAIN workers : x.pc = "op"} |-> workers[w]])

\* C7: while the stop channel is closed no worker begins an operation (the
\* number of operations in flight does not grow), in particular not a
\* worker in its tick wait.
C7_NoOperationBeginsAfterStopSignal ==
    [][(stopCh \in closed) => (OpsInFlight' <= OpsInFlight)]_vars

\* The step in which a call of Generator.Stop evaluates g.running.Load().
StopCheckStep(c) ==
    /\ call[c].pc \in {"idle", "check"}
    /\ call'[c].op = "Stop" /\ call'[c].pc \in {"store", "ret"}

\* C8: a Stop call that finds the generator stopped returns at once and
\* changes nothing: flag, stop channel, worker set, WaitGroup, config and
\* metrics stay as they are; the HTTP adapter answers 400 without calling
\* Stop.
C8_StopWhileStoppedHasNoEffect ==
    [][\A c \in Callers :
          /\ (~running /\ StopCheckStep(c)) =>
                /\ call'[c] = Ret("Stop", "not running")
                /\ UNCHANGED <<running, stopCh, closed, wg, config, col,
                               workers, timers>>
          /\ (~running /\ call[c].pc = "idle"
                /\ \/ call'[c].op = "LoadHandler.Stop"
                   \/ call'[c].op = "Stop" /\ call'[c].pc = "check") =>
                /\ call'[c] = Ret("LoadHandler.Stop", "400")
                /\ UNCHANGED <<running, stopCh, closed, wg, config, col,
                               workers, timers>>
      ]_vars

\* Stop has returned "not running" on a generator that ran and was stopped.
C8_Witness ==
    \E c \in Callers :
        /\ call[c] = Ret("Stop", "not running")
        /\ closed # {}
        /\ workers = EmptyBag

\* C9: the flag is cleared by a timer only if that timer was scheduled by
\* the Start of the run in progress (the one whose channel is installed).
C9_TimerEndsOnlyItsOwnRun ==
    [][\A t \in BagToSet(timers) :
          (/\ t.pc = "store"
           /\ running /\ ~running'
           /\ timers' = Move(timers, t, Timer("close", t.run)))
          => t.run = stopCh
      ]_vars

\* C10: when the timer of the run in progress has fired, every worker of
\* that run eventually exits (as long as the process lives).
C10_TimedRunEventuallyStops ==
    \A r \in 1..MaxStarts :
        (\E t \in BagToSet(timers) :
            t.pc = "store" /\ t.run = r /\ stopCh = r)
        ~> (WorkersOf(r) = {} \/ crashed)

\* The step in which a call of Generator.UpdateConfig evaluates
\* g.running.Load().
UpdateConfigCheckStep(c) ==
    /\ call[c].pc \in {"idle", "check"}
    /\ call'[c].op = "UpdateConfig" /\ call'[c].pc \in {"set", "ret"}

\* C11: an UpdateConfig call that finds the generator running returns the
\* error and changes nothing: the active config (what GetConfig returns and
\* the workers read) stays as it is, and so do flag, stop channel, workers
\* and metrics; the HTTP adapter answers 400 the same way.
C11_UpdateConfigWhileRunningHasNoEffect ==
    [][\A c \in Callers :
          /\ (running /\ UpdateConfigCheckStep(c)) =>
                /\ call'[c] = Ret("UpdateConfig", "running")
                /\ UNCHANGED <<running, stopCh, closed, wg, config, col,
                               workers, timers>>
          /\ (running /\ call[c].pc = "idle"
                /\ \/ call'[c].op = "LoadHandler.UpdateConfig"
                   \/ call'[c].op = "UpdateConfig" /\ call'[c].pc = "check") =>
                /\ call'[c] = Ret("LoadHandler.UpdateConfig", "400")
                /\ UNCHANGED <<running, stopCh, closed, wg, config, col,
                               workers, timers>>
      ]_vars

\* UpdateConfig has answered with the error while a run with live workers
\* goes on.
C11_Witness ==
    \E c \in Callers :
        /\ call[c] = Ret("UpdateConfig", "running")
        /\ running
        /\ workers # EmptyBag

\* C12: the config is not changed under a live worker: no step taken while
\* a worker is alive (running or draining) changes the active config.
C12_ConfigFixedWhileWorkersLive ==
    [][workers # EmptyBag => config' = config]_vars

\* The query mix is valid: no weight negative, the weights sum to 100.
ValidMix(m) ==
    /\ m.Simple >= 0 /\ m.Filter >= 0 /\ m.Aggregate >= 0
    /\ m.Simple + m.Filter + m.Aggregate = 100

\* C13: on a stopped read-server generator UpdateConfig with an invalid
\* query mix returns an error and leaves the active config as it was, and
\* UpdateConfig with a valid mix returns nil and makes the validated config
\* the active one.
C13_UpdateConfigAcceptsExactlyValidMixes ==
    [][(req'.n # req.n /\ req'.op = "UpdateConfig" /\ ~rs.running) =>
          IF ValidMix(req'.given.QueryMix)
          THEN req'.err = "nil" /\ rs'.config = req'.arg
          ELSE req'.err # "nil" /\ rs'.config = rs.config
      ]_vars

\* C14: the read-server Validate returns an error exactly when the three
\* weights do not sum to 100 or one of them is negative.
C14_ValidateRejectsExactlyInvalidMixes ==
    req.op = "ReadValidate" =>
        (req.err # "nil" <=> ~ValidMix(req.given.QueryMix))

\* The value of a scalar after its repair, and of the isolation level.
AtLeast(x, min) == IF x < min THEN min ELSE x
KnownLevel(l) == IF l \in IsolationLevels THEN l ELSE "READ COMMITTED"

\* C15: Validate repairs scalars instead of rejecting them.  The
\* write-server Validate always returns nil; whenever either Validate
\* returns nil, TPS/QPS, BatchSize, Workers and Duration are raised to 0, 1,
\* 1 and 0 if they were below, an unknown isolation level is READ
\* COMMITTED, and every other field is as it was given.
C15_ValidateRepairsScalars ==
    /\ req.op = "Validate" =>
          /\ req.err = "nil"
          /\ req.arg = [TPS |-> AtLeast(req.given.TPS, 0),
                        BatchSize |-> AtLeast(req.given.BatchSize, 1),
                        Workers |-> AtLeast(req.given.Workers, 1),
                        Duration |-> AtLeast(req.given.Duration, 0),
                        IsolationLevel |->
                            KnownLevel(req.given.IsolationLevel)]
          /\ req.arg.TPS >= 0 /\ req.arg.BatchSize >= 1
          /\ req.arg.Workers >= 1 /\ req.arg.Duration >= 0
          /\ req.arg.IsolationLevel \in IsolationLevels
    /\ (req.op \in {"ReadValidate", "UpdateConfig"} /\ req.err = "nil") =>
          /\ req.arg = [QPS |-> AtLeast(req.given.QPS, 0),
                        Workers |-> AtLeast(req.given.Workers, 1),
                        Duration |-> AtLeast(req.given.Duration, 0),
                        QueryMix |-> req.given.QueryMix,
                        IsolationLevel |->
                            KnownLevel(req.given.IsolationLevel)]
          /\ req.arg.QPS >= 0 /\ req.arg.Workers >= 1
          /\ req.arg.Duration >= 0
          /\ req.arg.IsolationLevel \in IsolationLevels

\* The write-server Validate has returned a config of which it repaired
\* every scalar.
C15_Witness ==
    /\ req.op = "Validate"
    /\ req.given.TPS < 0 /\ req.given.BatchSize < 1
    /\ req.given.Workers < 1 /\ req.given.Duration < 0
    /\ req.given.IsolationLevel \notin IsolationLevels
    /\ req.arg # req.given

\* The last two collector calls were a then b.
LastCalls(a, b) ==
    /\ Len(ms.log) >= 2
    /\ ms.log[Len(ms.log) - 1] = a
    /\ ms.log[Len(ms.log)] = b

\* C16: GetMetrics right after Reset returns total = success = failed = 0
\* and average, P50, P95 and P99 latency 0, whatever was recorded before.
C16_SnapshotAfterResetIsZero ==
    LastCalls("Reset", "GetMetrics") =>
        /\ ms.ret.total = 0 /\ ms.ret.success = 0 /\ ms.ret.failed = 0
        /\ ms.ret.avg.num = 0
        /\ ms.ret.p50 = 0 /\ ms.ret.p95 = 0 /\ ms.ret.p99 = 0

\* Successes and failures were recorded, then Reset and GetMetrics called.
C16_Witness ==
    /\ ms.log = <<"RecordSuccess", "RecordFailure", "Reset", "GetMetrics">>
    /\ col.latencies = <<>>

Max(s) == CHOOSE x \in {s[i] : i \in DOMAIN s} : \A i \in DOMAIN s : s[i] <= x

\* C17: a snapshot of a non-empty sample buffer has P50 <= P95 <= P99 and
\* P99 no greater than the largest sample.
C17_PercentilesAreMonotone ==
    (ms.op = "GetMetrics" /\ col.latencies # <<>>) =>
        /\ ms.ret.p50 <= ms.ret.p95
        /\ ms.ret.p95 <= ms.ret.p99
        /\ ms.ret.p99 * Millisecond <= Max(col.latencies)

\* A snapshot of an unsorted buffer with three different percentiles.
C17_Witness ==
    /\ ms.op = "GetMetrics"
    /\ ms.ret.p50 < ms.ret.p95 /\ ms.ret.p95 < ms.ret.p99
    /\ col.latencies # SortAsc(col.latencies)

\* C18: GetMetrics reads percentile p at index floor(len * p / 100) of
\* the sorted samples, which lies in 0..len-1 for every len >= 1 (no access
\* out of range); without samples every latency figure is 0.
C18_PercentileIndexInRange ==
    ms.op = "GetMetrics" =>
        /\ ~ms.ret.panic
        /\ \A p \in {50, 95, 99} :
              Len(col.latencies) >= 1 =>
                  Index(Len(col.latencies), p) \in 0..(Len(col.latencies) - 1)
        /\ Len(col.latencies) >= 1 =>
              /\ ms.ret.p50 = Milliseconds(
                    SortAsc(col.latencies)[(Len(col.latencies) * 50) \div 100 + 1])
              /\ ms.ret.p95 = Milliseconds(
                    SortAsc(col.latencies)[(Len(col.latencies) * 95) \div 100 + 1])
              /\ ms.ret.p99 = Milliseconds(
                    SortAsc(col.latencies)[(Len(col.latencies) * 99) \div 100 + 1])
        /\ Len(col.latencies) = 0 =>
              /\ ms.ret.avg.num = 0
              /\ ms.ret.p50 = 0 /\ ms.ret.p95 = 0 /\ ms.ret.p99 = 0

\* A snapshot of a single sample: every percentile is read at index 0.
C18_Witness ==
    /\ ms.op = "GetMetrics"
    /\ Len(col.latencies) = 1
    /\ ms.ret.p99 = Milliseconds(col.latencies[1])
    /\ ms.ret.p99 > 0

\* The step is a call of the collector method op.
CallOf(op) == ms'.left # ms.left /\ ms'.op = op

\* C19: the sample buffer never holds more than maxLatencies entries.
\* Below the cap RecordSuccess appends its one sample at the end; at the
\* cap it leaves the buffer as it is; either way it adds count to total
\* and success (an int64 addition).
C19_SampleBufferIsCapped ==
    [][/\ Len(col'.latencies) <= col'.maxLatencies
       /\ CallOf("RecordSuccess") =>
             /\ col'.totalRequests = Wrap(col.totalRequests + ms'.count)
             /\ col'.successRequests = Wrap(col.successRequests + ms'.count)
             /\ col'.failedRequests = col.failedRequests
             /\ col'.latencies =
                   IF Len(col.latencies) < col.maxLatencies
                   THEN Append(col.latencies, ms'.latency)
                   ELSE col.latencies
      ]_vars

\* RecordSuccess has been called with the buffer at its cap.
C19_Witness ==
    /\ ms.op = "RecordSuccess"
    /\ Len(col.latencies) = col.maxLatencies
    /\ Len(ms.log) > col.maxLatencies
    /\ \A i \in DOMAIN ms.log : ms.log[i] = "RecordSuccess"
    /\ col.successRequests > Len(col.latencies)

\* C20: RecordFailure(count) adds count to total and to failed (an int64
\* addition) and leaves the success counter, the sample buffer and the start
\* time as they are.
C20_RecordFailureFrame ==
    [][CallOf("RecordFailure") =>
          /\ col'.totalRequests = Wrap(col.totalRequests + ms'.count)
          /\ col'.failedRequests = Wrap(col.failedRequests + ms'.count)
          /\ col'.successRequests = col.successRequests
          /\ col'.latencies = col.latencies
          /\ col'.startTime = col.startTime
      ]_vars

\* RecordFailure has been called on a collector holding successes.
C20_Witness ==
    /\ ms.op = "RecordFailure"
    /\ col.failedRequests > 0
    /\ col.successRequests > 0
    /\ col.latencies # <<>>

\* C21: between two Resets the counters total, success and failed are
\* never negative and never decrease, whatever is recorded.
C21_CountersMonotoneBetweenResets ==
    [][/\ col'.totalRequests >= 0
       /\ col'.successRequests >= 0
       /\ col'.failedRequests >= 0
       /\ ~CallOf("Reset") =>
             /\ col'.totalRequests >= col.totalRequests
             /\ col'.successRequests >= col.successRequests
             /\ col'.failedRequests >= col.failedRequests
      ]_vars

\* The collector after the record call a.
Record(c, a) ==
    IF a.op = "RecordSuccess" THEN RecordSuccess(c, a.latency, a.count)
    ELSE RecordFailure(c, a.count)

\* The last two collector calls were record calls.
TwoRecords ==
    /\ Len(ms.log) >= 2
    /\ ms.prev.op \in {"RecordSuccess", "RecordFailure"}
    /\ ms.op \in {"RecordSuccess", "RecordFailure"}

\* The collector had the two calls been made in the opposite order.
Swapped == Record(Record(ms.before, Args(ms.op, ms.count, ms.latency)), ms.prev)

\* The samples of a buffer as a bag.
Samples(s) ==
    [x \in {s[i] : i \in DOMAIN s} |-> Cardinality({i \in DOMAIN s : s[i] = x})]

\* Neither order of the two calls finds the buffer at its cap.
BelowCap ==
    Len(ms.before.latencies) + Cardinality({a \in {1, 2} :
        ms.log[Len(ms.log) - 2 + a] = "RecordSuccess"}) <= col.maxLatencies

\* C28: recording commutes: two record calls made in either order leave
\* the same total, success and failed counters and, unless the buffer
\* reaches its cap, the same bag of samples and the same average and
\* percentiles.
C28_RecordingCommutes ==
    TwoRecords =>
        /\ col.totalRequests = Swapped.totalRequests
        /\ col.successRequests = Swapped.successRequests
        /\ col.failedRequests = Swapped.failedRequests
        /\ BelowCap =>
              /\ Samples(col.latencies) = Samples(Swapped.latencies)
              /\ GetMetrics(col) = GetMetrics(Swapped)

\* Two successes with different latencies and counts were recorded on a
\* filled buffer: the other order leaves the samples in another sequence.
C28_Witness ==
    /\ TwoRecords /\ BelowCap
    /\ ms.op = "RecordSuccess" /\ ms.prev.op = "RecordSuccess"
    /\ ms.count # ms.prev.count
    /\ ms.before.latencies # <<>>
    /\ col.latencies # Swapped.latencies

\* C27: a ResetMetrics request that arrives while the generator is
\* running is answered with an error and changes nothing; the collector is
\* reset only while the generator is not running, so that no Reset
\* discards what the workers of a run in progress have counted.
C27_ResetOnlyWhileStopped ==
    [][/\ \A c \in Callers :
             (LoadHandlerResetMetrics(c) /\ running) =>
                 /\ call'[c] = Ret("LoadHandler.ResetMetrics", "400")
                 /\ col' = col
       /\ (\E c \in Callers : ResetMetricsReset(c)) =>
             ~(running /\ workers # EmptyBag /\ col.totalRequests > 0)
      ]_vars

\* C22: with a database that fails every operation the workers record
\* failures only (success = 0, failed = total), and the process that has
\* recorded them does not die: the generator runs until it is stopped and
\* stops without a crash.
C22_FailingDatabaseIsSurvived ==
    env.target = "down" =>
        /\ col.successRequests = 0
        /\ col.failedRequests = col.totalRequests
        /\ col.totalRequests > 0 => ~crashed

\* The worker has finished an iteration of its loop.
IterationEnded == wk.pc = "loop" /\ wk.iter > 0

\* How often the database call was made in the iteration.
Times(name) == Cardinality({i \in DOMAIN wk.steps : wk.steps[i] = name})

\* C23: an iteration of the worker loop attempts its operation once (every
\* database call of it is made at most once, Begin exactly once) and records
\* exactly one outcome, with count BatchSize in the write-server and 1 in
\* the read-server.
C23_OneAttemptOneOutcome ==
    /\ \A name \in {"Begin", "SetIsolation", "Exec", "Query", "Rows",
                     "Commit", "Rollback"} : Times(name) <= 1
    /\ Len(wk.outcomes) <= 1
    /\ IterationEnded =>
          /\ Times("Begin") = 1
          /\ Len(wk.outcomes) = 1
          /\ wk.outcomes[1].count =
                IF wk.server = "write" THEN config.BatchSize ELSE 1

\* A write-server iteration with BatchSize 2 ended in a failed Commit.
C23_Witness ==
    /\ IterationEnded
    /\ wk.server = "write" /\ config.BatchSize = 2
    /\ wk.tx = "aborted"
    /\ wk.outcomes = <<Outcome("RecordFailure", 2)>>

\* The database calls of an operation in their order.
CallOrder ==
    IF wk.server = "write"
    THEN <<"Begin", "SetIsolation", "Exec", "Commit">>
    ELSE <<"Begin", "SetIsolation", "Query", "Rows", "Commit">>

IsPrefix(s, t) == Len(s) <= Len(t) /\ \A i \in DOMAIN s : s[i] = t[i]

\* The calls made before the deferred Rollback.
Forward ==
    IF wk.steps # <<>> /\ wk.steps[Len(wk.steps)] = "Rollback"
    THEN SubSeq(wk.steps, 1, Len(wk.steps) - 1) ELSE wk.steps

\* C24: an operation calls Begin, sets the isolation level, does its work
\* and commits, in that order.  A success is recorded exactly when Commit
\* succeeded.  When Begin fails no transaction is opened; when a later call
\* fails Rollback is called on the transaction; either way one failure is
\* recorded.  No transaction or result set is open when the iteration ends.
C24_ScopedTransaction ==
    /\ IsPrefix(Forward, CallOrder)
    /\ wk.tx # "none" => Times("Begin") = 1
    /\ IterationEnded =>
          /\ wk.tx # "open" /\ ~wk.rows
          /\ wk.outcomes = <<Outcome("RecordSuccess", WorkCount)>>
                <=> wk.tx = "committed"
          /\ wk.tx = "committed" <=> Forward = CallOrder /\ ~wk.err
          /\ wk.err =>
                /\ wk.outcomes = <<Outcome("RecordFailure", WorkCount)>>
                /\ IF wk.steps = <<"Begin">>
                   THEN wk.tx = "none"
                   ELSE /\ Times("Rollback") = 1
                        /\ wk.tx = IF Times("Commit") = 1 THEN "aborted"
                                    ELSE "rolledback"

\* A read-server iteration ended after reading the rows failed: the
\* transaction was rolled back.
C24_Witness ==
    /\ IterationEnded
    /\ wk.server = "read"
    /\ wk.steps = <<"Begin", "SetIsolation", "Query", "Rows", "Rollback">>
    /\ wk.tx = "rolledback"

\* The weight of a query type in a mix.
Weight(mix, kind) ==
    IF kind = "simple" THEN mix.Simple
    ELSE IF kind = "filter" THEN mix.Filter ELSE mix.Aggregate

\* C25: for a valid mix and a draw r in 0..99 selectQueryType returns
\* simple iff r < Simple, filter iff Simple <= r < Simple + Filter, and
\* aggregate otherwise; each type is returned for as many draws as its
\* weight, and a type of weight 0 for none.
C25_SelectionFollowsWeights ==
    (wk.server = "read" /\ wk.pc = "begin") =>
        LET m == rs.config.QueryMix IN
        /\ wk.kind = "simple" <=> wk.r < m.Simple
        /\ wk.kind = "filter" <=>
              (m.Simple <= wk.r /\ wk.r < m.Simple + m.Filter)
        /\ wk.kind = "aggregate" <=> wk.r >= m.Simple + m.Filter
        /\ \A kind \in {"simple", "filter", "aggregate"} :
              Cardinality({d \in Draws : selectQueryType(m, d) = kind})
                  = Weight(m, kind)
        /\ Weight(m, wk.kind) > 0

\* The draw fell on the first value after the simple queries of a mix
\* without filter queries: aggregate was selected.
C25_Witness ==
    /\ wk.server = "read" /\ wk.pc = "begin"
    /\ rs.config.QueryMix.Simple > 0
    /\ rs.config.QueryMix.Filter = 0
    /\ wk.r = rs.config.QueryMix.Simple
    /\ wk.kind = "aggregate"

\* Ticks a worker's ticker delivers in a second.
TicksPerSecond(interval) == Second \div interval

\* C26: the operations the workers of a rate-limited generator may start
\* in a second, one per tick and worker, exceed the rate target by at most
\* one operation.
C26_PermittedRateWithinTarget ==
    wk.interval > 0 =>
        WorkPool * TicksPerSecond(wk.interval) <= WorkRate + 1

\* Every goroutine of the demo has returned.
AllReturned == shop.successCount + shop.failCount = shop.n

\* C29: with SELECT ... FOR UPDATE the stock is the initial stock less the
\* quantity for every deduction that returned success, whatever the
\* interleaving; in the demo (stock 100, ten deductions of 10) all ten
\* succeed and leave stock 0.
C29_LockedDeductionsAddUp ==
    shop.variant = "lock" =>
        /\ shop.stock = shop.initial - shop.quantity * shop.successCount
        /\ (AllReturned /\ ~shop.faulty /\ shop.n = DemoGoroutines) =>
              shop.successCount = DemoGoroutines /\ shop.stock = 0

\* The ten deductions of RunSolutionDemo have returned.
C29_Witness ==
    /\ shop.variant = "lock"
    /\ shop.n = DemoGoroutines /\ shop.initial = 100 /\ shop.quantity = 10
    /\ AllReturned
    /\ shop.successCount = 10 /\ shop.stock = 0

\* C30: DeductStockWithProblem commits the stock it read earlier less the
\* quantity, whatever the row holds by then, so that updates can be lost
\* (and none is applied twice): the stock is never below the initial stock
\* less the quantities of the successful deductions.
C30_StaleReadIsWrittenBack ==
    [][shop.variant = "problem" =>
          /\ \A t \in BagToSet(shop.txs) :
                (DeductCommit(t) /\ shop'.successCount # shop.successCount)
                    => shop'.stock = t.read - shop.quantity
          /\ shop'.stock >= shop.initial - shop.quantity * shop'.successCount
      ]_vars

\* A lost update: every deduction of RunProblemDemo returned success and
\* the stock is above the initial stock less the deducted quantities.
C30_Witness ==
    /\ shop.variant = "problem"
    /\ shop.n = DemoGoroutines /\ shop.initial = 100 /\ shop.quantity = 10
    /\ shop.successCount = shop.n
    /\ shop.stock > shop.initial - shop.quantity * shop.n

\* The worker w leaves its loop in this step because a stop channel is
\* closed.
Cancelled(w) ==
    /\ w.pc \in {"loop", "wait"}
    /\ workers' = Move(workers, w, Worker("exit", w.run, FALSE))

C35_StopChannelClosedOnce ==
    /\ ~crashed
    /\ \A c \in Callers : call[c] # Ret("Stop", "panic")

\* C36: while the running flag is false no worker is alive.
C36_StoppedMeansNoWorker ==
    ~running => workers = EmptyBag

\* The largest Workers value of the configs of the workload.
MostWorkers ==
    CHOOSE n \in {Validate(c).Workers : c \in env.configs} :
        \A c \in env.configs : Validate(c).Workers <= n

\* C37: the live workers all belong to one run and are no more than the
\* Workers value of a config (of the config of the last successful Start,
\* hence of the largest value the configs of the workload have).
C37_LiveWorkersWithinConfig ==
    /\ BagCardinality(workers) <= MostWorkers
    /\ \A v, w \in BagToSet(workers) : v.run = w.run

\* The step is a call of the collector method op.
IsCall(op) == ms'.left = ms.left - 1 /\ ms'.op = op

\* C34: GetMetrics leaves the collector as it found it: counters, start
\* time and the samples in their order of arrival (the percentiles come
\* from a sorted copy); and the snapshot a caller holds is a value: a later
\* RecordSuccess, RecordFailure or Reset does not alter it.
C34_GetMetricsFrame ==
    [][/\ IsCall("GetMetrics") =>
             /\ col' = col
             /\ ms'.ret = GetMetrics(col)
       /\ (\E op \in Writers : IsCall(op)) => ms'.ret = ms.ret
      ]_vars

\* GetMetrics has returned percentiles of a buffer whose samples are not
\* in ascending order, and the buffer still holds them as they arrived.
C34_Witness ==
    /\ ms.op = "GetMetrics"
    /\ Len(col.latencies) >= 2
    /\ col.latencies # SortAsc(col.latencies)
    /\ col = ms.found
    /\ ms.ret.p50 > 0

\* C31: a worker of a generator with rate target R > 0 and C workers ticks
\* max(1, R / C) times a second (its interval is a second divided by that
\* integer), so that the workers together may start C * max(1, R / C)
\* operations a second: C, which is more than R, when C > R, and no more
\* than R when C <= R.
C31_AggregatePermittedRate ==
    (WorkRate > 0 /\ wk.pc \notin {"none", "new", "panic"}) =>
        /\ wk.ticker
        /\ wk.interval = Second \div PerWorker(WorkRate, WorkPool)
        /\ TicksPerSecond(wk.interval) = PerWorker(WorkRate, WorkPool)
        /\ WorkPool > WorkRate =>
              WorkPool * TicksPerSecond(wk.interval) = WorkPool
        /\ WorkPool <= WorkRate =>
              WorkPool * TicksPerSecond(wk.interval) <= WorkRate

\* C32: a worker of a generator without rate target has no ticker and
\* never waits for a tick: at the top of its loop it goes on to the next
\* operation when the stop channel is not closed, and returns when it is.
C32_UnlimitedNeverWaits ==
    [][WorkRate = 0 =>
          /\ ~wk'.ticker /\ wk'.pc # "tick"
          /\ (wk.pc = "loop" /\ wk' # wk) =>
                wk'.pc = IF stopCh \in closed THEN "exit" ELSE "run"
      ]_vars

\* A worker without rate target has finished an operation and started the
\* next one.
C32_Witness ==
    /\ wk.server = "write"
    /\ WorkRate = 0
    /\ wk.iter >= 1
    /\ wk.pc = "begin"
    /\ col.totalRequests > 0

\* C38: the interval a worker computes for its ticker is positive for every
\* validated config with a rate target above 0, and creating the ticker
\* does not panic.
C38_TickerIntervalPositive ==
    (WorkRate > 0 /\ wk.pc \notin {"none", "new"}) =>
        /\ wk.interval > 0
        /\ ~crashed

\* C39: in both variants a deduction whose SELECT returned less than the
\* quantity returns an error before its UPDATE, its transaction rolled
\* back; a deduction that returns an error leaves the stock as it is; and
\* with SELECT ... FOR UPDATE the stock is never negative.
C39_InsufficientStockIsRefused ==
    /\ [](shop.variant = "lock" => shop.stock >= 0)
    /\ [][/\ \A t \in BagToSet(shop.txs) :
                (DeductCheck(t) /\ t.read < shop.quantity) =>
                    shop' = [shop EXCEPT
                               !.txs = Move(@, t, Deduction("done", t.read,
                                                            FALSE)),
                               !.failCount = @ + 1]
          /\ shop'.failCount # shop.failCount => shop'.stock = shop.stock
          /\ \A t \in BagToSet(shop.txs) :
                t.pc \in {"update", "commit"} => t.read >= shop.quantity
        ]_vars

\* With the row lock and stock for two of three deductions, two returned
\* nil and the third was refused: the stock is 0.
C39_Witness ==
    /\ shop.variant = "lock" /\ ~shop.faulty
    /\ shop.initial < shop.quantity * shop.n
    /\ AllReturned
    /\ shop.failCount = 1
    /\ shop.stock = 0

====
